---- MODULE Spec2Model ----
(***************************************************************************)
(* Model of the literature-review pipeline: the paper store               *)
(* (data/database.py), the screening agent and its batch executor         *)
(* (agents/screening_agent.py), the HITL resume, the snowballing          *)
(* controller (agents/snowballing_agent.py) and the search deduplication  *)
(* (agents/search_agent.py).                                              *)
(***************************************************************************)
EXTENDS Integers, Sequences, FiniteSets, TLC

VARIABLES
    papers,         \* the papers table: stored id -> row
    sb,             \* position and locals of SnowballingAgent.run
    last,           \* the last completed store operation and what it was given
    bx,             \* the batch executor: workers, collected outcomes, commit position
    srch,           \* position and locals of SearchAgent.run
    session,        \* st.session_state: pipeline_stage, the review configuration,
                    \* and the position of the Progress page's handler
    events,         \* the pipeline_log table, as the orchestrator appends to it
    syn             \* position and locals of SynthesisAgent.run, the embeddings
                    \* and synthesis_result tables

vars == <<papers, sb, last, bx, srch, session, events, syn>>

(***************************************************************************)
(* Bounds and program constants                                            *)
(***************************************************************************)
\* Paper ids of the universe; the id order is the citation_count order of
\* get_papers (p1 has the most citations).
Ids == {"p1", "p2", "p3"}

\* The ids the pipeline specification ingests, screens and snowballs.
PipeIds == {"p1", "p2"}

\* Longest list of decisions one remote screening call returns.
MaxResp == 2

\* Longest document list handed to one upsert_papers call by the search stage.
MaxIngest == 1

\* config.DEFAULT_SCREENING_BATCH_SIZE is 20; the model screens in batches of
\* BatchSize papers so that a run over three papers has two batches.
BatchSize == 2

DEFAULT_MAX_SNOWBALL_ROUNDS == 3
DEFAULT_TARGET_CORPUS_SIZE == 50

\* config.DEFAULT_MIN_YIELD_RATE = 0.02, kept as the fraction 2/100.
MinYieldNum == 2
MinYieldDen == 100

NULL == "NULL"

(***************************************************************************)
(* Small helpers                                                           *)
(***************************************************************************)
Rank(i) == CASE i = "p1" -> 1 [] i = "p2" -> 2 [] i = "p3" -> 3 [] OTHER -> 4

SeqsUpTo(S, n) == UNION {[1..k -> S] : k \in 0..n}

RECURSIVE SortedSeq(_)
SortedSeq(S) ==
    IF S = {} THEN <<>>
    ELSE LET m == CHOOSE x \in S : \A y \in S : Rank(x) <= Rank(y)
         IN  <<m>> \o SortedSeq(S \ {m})

Perms(n) == {f \in [1..n -> 1..n] : \A i, j \in 1..n : f[i] = f[j] => i = j}

(***************************************************************************)
(* The paper store (data/database.py)                                      *)
(***************************************************************************)
\* One normalised document as the catalog clients return it.
MkDoc(i, d, t, oa, fv) ==
    [id |-> i, doi |-> d, title |-> t, openalex_id |-> oa, found_via |-> fv]

\* The row INSERT creates: the bibliographic attributes of the document, the
\* provenance tag (p.get("found_via", "search")) and every pipeline field NULL
\* (the numeric fields hold 0 and -1 for NULL).
\* The quality_score column is nullable; a row without a score holds NoScore.
NoScore == -1

NewRow(p) ==
    [doi |-> p.doi, title |-> p.title, openalex_id |-> p.openalex_id,
     found_via |-> IF p.found_via = NULL THEN "search" ELSE p.found_via,
     screening_pass1 |-> NULL, screening_pass1_reason |-> NULL,
     screening_pass1_confidence |-> 0, human_decision |-> NULL,
     quality_score |-> NoScore, quality_notes |-> NULL, quality_flag |-> NULL,
     relevance_score |-> NoScore,
     final_status |-> NULL]

\* One iteration of upsert_papers' loop: skip a stored id, insert a new one.
UpsertOneOverwrite(store, p) ==
    [i \in DOMAIN store \cup {p.id} |-> IF i = p.id THEN NewRow(p) ELSE store[i]]

UpsertOne(store, p) ==
    IF p.id \in DOMAIN store
    THEN store
    ELSE [i \in DOMAIN store \cup {p.id} |-> IF i = p.id THEN NewRow(p) ELSE store[i]]

RECURSIVE upsert_papers(_, _)
upsert_papers(store, docs) ==
    IF docs = <<>> THEN store
    ELSE upsert_papers(UpsertOne(store, Head(docs)), Tail(docs))

\* The count upsert_papers returns.
RECURSIVE upsert_count(_, _)
upsert_count(store, docs) ==
    IF docs = <<>> THEN 0
    ELSE (IF Head(docs).id \in DOMAIN store THEN 0 ELSE 1)
         + upsert_count(UpsertOne(store, Head(docs)), Tail(docs))

\* UPDATE papers SET <fields> WHERE id = ?: no row, no change.
update_paper(store, pid, fields) ==
    IF pid \notin DOMAIN store THEN store
    ELSE [store EXCEPT ![pid] =
            [f \in DOMAIN @ |-> IF f \in DOMAIN fields THEN fields[f] ELSE @[f]]]

\* get_papers with its optional filters, as the set of ids it returns.
get_papers(store) == DOMAIN store
get_papers_final(store, fs) == {i \in DOMAIN store : store[i].final_status = fs}
get_papers_pass1(store, d) == {i \in DOMAIN store : store[i].screening_pass1 = d}

count_papers(store) ==
    LET total == Cardinality(DOMAIN store)
        included == Cardinality(get_papers_final(store, "INCLUDED"))
        excluded == Cardinality(get_papers_final(store, "EXCLUDED"))
        borderline == Cardinality({i \in DOMAIN store :
                          /\ store[i].screening_pass1 = "BORDERLINE"
                          /\ store[i].human_decision = NULL})
    IN  [total |-> total, included |-> included, excluded |-> excluded,
         borderline |-> borderline,
         unscreened |-> total - included - excluded - borderline]

(***************************************************************************)
(* Screening (agents/screening_agent.py)                                   *)
(***************************************************************************)
\* One entry of a "decisions" list. A remote entry carries the id and the label
\* the model returned; id "NOID" is an entry without an id, BadEntry is an entry
\* that is not an object (d.get raises on it).
MkDecision(i, dec, reason, conf) ==
    [id |-> i, decision |-> dec, reason |-> reason, confidence |-> conf]

BadEntry == MkDecision("NOTOBJ", "NOTOBJ", NULL, 0)

\* Labels the remote call returns: the three decisions, a lower-case and an
\* unknown label.
Labels == {"INCLUDE", "EXCLUDE", "BORDERLINE", "exclude", "MAYBE"}

RemoteEntries(ids, labels) ==
    {MkDecision(i, l, "llm", 90) : i \in ids, l \in labels}

\* str.upper() on the labels of the model.
Upper(l) ==
    CASE l = "exclude" -> "EXCLUDE"
      [] l = "include" -> "INCLUDE"
      [] l = "borderline" -> "BORDERLINE"
      [] OTHER -> l

\* An entry without a "decision" key carries the label NoLabel.
NoLabel == "NOLABEL"

\* Lines 107-109 without the coercion of line 109.
NormDecisionNoCoerce(l) == Upper(IF l = NoLabel THEN "BORDERLINE" ELSE l)

\* Lines 107-109: d.get("decision", "BORDERLINE"), upper-cased, and anything
\* but the three decisions coerced to BORDERLINE.
NormDecision(l) ==
    LET u == Upper(IF l = NoLabel THEN "BORDERLINE" ELSE l)
    IN  IF u \in {"INCLUDE", "EXCLUDE", "BORDERLINE"} THEN u ELSE "BORDERLINE"

\* The except branch of screen_batch: one synthesized decision per paper of
\* the batch, in batch order.
ApiErrorDecisions(batch) ==
    [k \in 1..Len(batch) |-> MkDecision(batch[k], "BORDERLINE", "API error", 50)]

\* unscreened, in get_papers order, cut into batches of BatchSize.
Unscreened(store) == {i \in DOMAIN store : store[i].screening_pass1 = NULL}

Batches(store) ==
    LET u == SortedSeq(Unscreened(store))
        n == (Len(u) + BatchSize - 1) \div BatchSize
    IN  [b \in 1..n |->
            SubSeq(u, (b - 1) * BatchSize + 1,
                   IF b * BatchSize < Len(u) THEN b * BatchSize ELSE Len(u))]

ZeroCounts == [include |-> 0, exclude |-> 0, borderline |-> 0]

\* The commit loop's iteration without the final_status write of line 121.
CommitOneNoStatus(st, d) ==
    IF st.raised THEN st
    ELSE IF d = BadEntry THEN [st EXCEPT !.raised = TRUE]
    ELSE IF d.id = "NOID" THEN st
    ELSE
      LET decision == NormDecision(d.decision)
          key == IF decision = "INCLUDE" THEN "include"
                 ELSE IF decision = "EXCLUDE" THEN "exclude" ELSE "borderline"
      IN  [st EXCEPT !.store = update_paper(st.store, d.id,
                                   [screening_pass1 |-> decision,
                                    screening_pass1_reason |-> d.reason,
                                    screening_pass1_confidence |-> d.confidence]),
                     !.counts = [@ EXCEPT ![key] = @ + 1],
                     !.writes = IF d.id \in DOMAIN st.store THEN Append(@, d.id) ELSE @]

\* One iteration of the commit loop (lines 103-123) on the running state
\* st = [store, counts, raised, writes]; writes counts the rows updated.
CommitOne(st, d) ==
    IF st.raised THEN st
    ELSE IF d = BadEntry THEN [st EXCEPT !.raised = TRUE]
    ELSE IF d.id = "NOID" THEN st
    ELSE
      LET decision == NormDecision(d.decision)
          s1 == update_paper(st.store, d.id,
                    [screening_pass1 |-> decision,
                     screening_pass1_reason |-> d.reason,
                     screening_pass1_confidence |-> d.confidence])
          s2 == IF decision = "EXCLUDE"
                THEN update_paper(s1, d.id, [final_status |-> "EXCLUDED"])
                ELSE s1
          key == IF decision = "INCLUDE" THEN "include"
                 ELSE IF decision = "EXCLUDE" THEN "exclude" ELSE "borderline"
      IN  [st EXCEPT !.store = s2,
                     !.counts = [@ EXCEPT ![key] = @ + 1],
                     !.writes = IF d.id \in DOMAIN st.store THEN Append(@, d.id) ELSE @]

RECURSIVE CommitAll(_, _)
CommitAll(st, ds) ==
    IF ds = <<>> THEN st ELSE CommitAll(CommitOne(st, Head(ds)), Tail(ds))

\* What one remote call did: it threw, or it returned a list of decisions.
Throw == [throw |-> TRUE, decisions |-> <<>>]
Returned(ds) == [throw |-> FALSE, decisions |-> ds]

\* all_decisions for one choice of what each worker's call did and of the
\* completion order.
RECURSIVE Collected(_, _, _, _)
Collected(batches, outs, order, k) ==
    IF k > Len(batches) THEN <<>>
    ELSE LET b == order[k]
         IN  (IF outs[b].throw THEN ApiErrorDecisions(batches[b]) ELSE outs[b].decisions)
             \o Collected(batches, outs, order, k + 1)

\* run_pass1 as one call: the final commit state, given the workers' outcomes.
run_pass1(store, outs, order) ==
    LET batches == Batches(store)
        st0 == [store |-> store, counts |-> ZeroCounts, raised |-> FALSE, writes |-> <<>>]
    IN  IF Unscreened(store) = {} THEN st0
        ELSE CommitAll(st0, Collected(batches, outs, order, 1))

\* finalize_included left out.
finalize_skipped(store) == store

\* finalize_included without the condition on the pass-1 decision.
finalize_undecided(store) ==
    [i \in DOMAIN store |->
        IF store[i].final_status = NULL
        THEN [store[i] EXCEPT !.final_status = "INCLUDED"]
        ELSE store[i]]

\* finalize_included: INCLUDE and no final status -> INCLUDED.
finalize_included(store) ==
    [i \in DOMAIN store |->
        IF store[i].screening_pass1 = "INCLUDE" /\ store[i].final_status = NULL
        THEN [store[i] EXCEPT !.final_status = "INCLUDED"]
        ELSE store[i]]

\* apply_human_decisions whose INCLUDE branch leaves final_status as it is.
apply_human_keep_status(store) ==
    [i \in DOMAIN store |->
        IF store[i].screening_pass1 # "BORDERLINE" THEN store[i]
        ELSE IF store[i].human_decision = "INCLUDE"
             THEN [store[i] EXCEPT !.screening_pass1 = "INCLUDE"]
        ELSE IF store[i].human_decision = "EXCLUDE"
             THEN [store[i] EXCEPT !.final_status = "EXCLUDED"]
        ELSE store[i]]

\* apply_human_decisions, over the rows with pass1 = BORDERLINE.
apply_human_decisions(store) ==
    [i \in DOMAIN store |->
        IF store[i].screening_pass1 # "BORDERLINE" THEN store[i]
        ELSE IF store[i].human_decision = "INCLUDE"
             THEN [store[i] EXCEPT !.screening_pass1 = "INCLUDE", !.final_status = NULL]
        ELSE IF store[i].human_decision = "EXCLUDE"
             THEN [store[i] EXCEPT !.final_status = "EXCLUDED"]
        ELSE store[i]]

(***************************************************************************)
(* Snowballing (agents/snowballing_agent.py)                               *)
(***************************************************************************)
\* pc is the position in run; max_rounds, target_size, round_num and
\* total_new_included are its locals; the other fields record what the run did:
\* loop iterations begun, iterations that collected candidates, the last
\* round's candidate count and new_included, run_pass1 calls, rows inserted,
\* and the papers a round's screening left with decision INCLUDE and no
\* final status.
SbIdle ==
    [pc |-> "idle", max_rounds |-> 0, target_size |-> 0,
     round_num |-> 0, total_new_included |-> 0, rounds |-> 0, collects |-> 0,
     ncand |-> 0, new_included |-> 0, screenings |-> 0, inserted |-> 0,
     newly |-> {}]

\* Lines 114-123: the stop reasons after a round's screening.
StopNever(new_included, ncand, included, target_size) == FALSE

StopReasons(new_included, ncand, included, target_size) ==
    \/ new_included = 0
    \/ new_included * MinYieldDen < MinYieldNum * ncand
    \/ 2 * included >= 3 * target_size

\* Line 82: "if not unique_candidates: break".
NoCandidatesNever(unique) == FALSE

NoCandidates(unique) == unique = <<>>

\* range(1, max_rounds + 1): whether the loop has an iteration round_num.
LoopSkipsFirst(round_num, max_rounds) == 2 <= round_num /\ round_num <= max_rounds

LoopHas(round_num, max_rounds) == round_num <= max_rounds

\* The candidate sets one round can collect: the citation lookups are made
\* for the included papers that carry an openalex_id, return any works, and
\* the works already in the store are dropped.
Candidates(store) ==
    IF \E i \in get_papers_final(store, "INCLUDED") : store[i].openalex_id # NULL
    THEN SUBSET (PipeIds \ DOMAIN store)
    ELSE {{}}

\* f"snowball_round_{round_num}"
RoundTag(n) ==
    CASE n = 1 -> "snowball_round_1" [] n = 2 -> "snowball_round_2"
      [] n = 3 -> "snowball_round_3" [] OTHER -> "snowball_round_n"

SnowballDocs(C, round_num) ==
    [k \in 1..Cardinality(C) |->
        MkDoc(SortedSeq(C)[k], NULL, SortedSeq(C)[k], "W", RoundTag(round_num))]

(***************************************************************************)
(* The pipeline over the store: the orchestrator's operations              *)
(***************************************************************************)
EmptyStore == [i \in {} |-> NULL]

\* kind is the stage that owns the pool; items are the work items in
\* submission order (a screening batch, or one paper); w[b] is where worker b
\* is; out[b] is what worker b returned; threw holds the workers whose remote
\* call threw; all_results is all_decisions / all_results; k is the number of
\* collected outcomes the commit loop has gone through; writes lists the ids
\* of the rows the commit loop updated, in order.
BxIdle ==
    [kind |-> "none", pc |-> "idle", items |-> <<>>, w |-> <<>>, out |-> <<>>,
     threw |-> {}, all_results |-> <<>>, completed_count |-> 0, k |-> 0,
     counts |-> ZeroCounts, writes |-> <<>>]

\* SynthesisAgent.run before it starts: pc is the position in run, vectors
\* whether the document embeddings came back, embeddings the paper ids of the
\* embeddings table, result the row of synthesis_result (NULL: none), and
\* method, rq_words and words what the last relevance scoring worked from.
SynIdle ==
    [pc |-> "idle", vectors |-> FALSE, embeddings |-> {}, label |-> NULL,
     result |-> NULL, method |-> NULL, rq_words |-> {}, words |-> <<>>]

\* The session context at session start: stage IDLE, no handler running.
\* pc is "page" between handlers, "running" inside an orchestrator operation,
\* "returned" after run_search, "error" after a handler caught an exception.
SessionIdle ==
    [pipeline_stage |-> "IDLE", pc |-> "page", run_query_only |-> FALSE,
     hitl_enabled |-> TRUE, enable_snowballing |-> TRUE,
     max_snowball_rounds |-> DEFAULT_MAX_SNOWBALL_ROUNDS,
     screen_borderline |-> 0]

\* SearchAgent.run before its first query; i is the index of the next query of
\* the running loop, enc the documents gone through, failed the number of
\* queries logged as failed.
SrchIdle ==
    [pc |-> "idle", seen_dois |-> {}, seen_titles |-> {}, enc |-> <<>>,
     total_inserted |-> 0, i |-> 0, failed |-> 0]

\* The review configurations a session may hold when a stage starts.
Configs ==
    [max_snowball_rounds : {0, DEFAULT_MAX_SNOWBALL_ROUNDS},
     target_corpus_size : {1, DEFAULT_TARGET_CORPUS_SIZE}]

\* What a search hands to upsert_papers: documents found by a query.
SearchDocs ==
    {MkDoc("p1", NULL, "p1", "W", NULL), MkDoc("p1", NULL, "p1", NULL, NULL),
     MkDoc("p2", NULL, "p2", "W", NULL)}

PipeLabels == {"INCLUDE", "EXCLUDE", "BORDERLINE"}

PipeResponses ==
    SeqsUpTo(RemoteEntries(PipeIds, PipeLabels) \cup {BadEntry}, MaxResp)

Outcomes(store, responses) ==
    [1..Len(Batches(store)) -> {Throw} \cup {Returned(ds) : ds \in responses}]

\* The last store operation: its name, the number of documents an upsert
\* skipped as already stored, and whether the operation raised.
Last(op, skipped, raised) == [op |-> op, skipped |-> skipped, raised |-> raised]

InitPipe ==
    /\ session = SessionIdle
    /\ events = <<>>
    /\ syn = SynIdle
    /\ papers = EmptyStore
    /\ sb = SbIdle
    /\ last = Last("init", 0, FALSE)
    /\ bx = BxIdle
    /\ srch = SrchIdle

\* No stage is running: the orchestrator runs one operation at a time.
Quiescent == sb.pc \in {"idle", "returned", "raised"}

\* The search stage's insertion of one query's documents.
Ingest ==
    /\ UNCHANGED <<session, events, syn>>
    /\ UNCHANGED <<bx, srch>>
    /\ Quiescent
    /\ \E docs \in SeqsUpTo(SearchDocs, MaxIngest) :
          /\ papers' = upsert_papers(papers, docs)
          /\ last' = Last("upsert", Len(docs) - upsert_count(papers, docs), FALSE)
    /\ sb' = SbIdle

\* Orchestrator.run_screening_pass1: run_pass1, then finalize_included unless
\* run_pass1 raised.
run_screening_pass1 ==
    /\ UNCHANGED <<session, events, syn>>
    /\ UNCHANGED <<bx, srch>>
    /\ Quiescent
    /\ \E outs \in Outcomes(papers, PipeResponses) :
       \E order \in Perms(Len(Batches(papers))) :
          LET r == run_pass1(papers, outs, order)
          IN  /\ papers' = IF r.raised THEN r.store ELSE finalize_included(r.store)
              /\ last' = Last("screen", 0, r.raised)
    /\ sb' = SbIdle

\* The HITL page's Include / Exclude buttons, offered for the BORDERLINE
\* papers without a human decision.
RecordHuman ==
    /\ UNCHANGED <<session, events, syn>>
    /\ UNCHANGED <<bx, srch>>
    /\ Quiescent
    /\ \E i \in DOMAIN papers : \E d \in {"INCLUDE", "EXCLUDE"} :
          /\ papers[i].screening_pass1 = "BORDERLINE"
          /\ papers[i].human_decision = NULL
          /\ papers' = update_paper(papers, i, [human_decision |-> d])
    /\ last' = Last("human", 0, FALSE)
    /\ sb' = SbIdle

\* Orchestrator.resume_after_hitl.
resume_after_hitl ==
    /\ UNCHANGED <<session, events, syn>>
    /\ UNCHANGED <<bx, srch>>
    /\ Quiescent
    /\ papers' = finalize_included(apply_human_decisions(papers))
    /\ last' = Last("resume", 0, FALSE)
    /\ sb' = SbIdle

\* Orchestrator.run_snowballing up to the first iteration of the loop.
run_snowballing ==
    /\ UNCHANGED <<session, events, syn>>
    /\ UNCHANGED <<bx, srch>>
    /\ Quiescent
    /\ \E cfg \in Configs :
          sb' = [SbIdle EXCEPT !.pc = "loop", !.round_num = 1,
                               !.max_rounds = cfg.max_snowball_rounds,
                               !.target_size = cfg.target_corpus_size]
    /\ last' = Last("snowball", 0, FALSE)
    /\ UNCHANGED papers

\* An iteration of the loop of SnowballingAgent.run that breaks at line 40:
\* no included paper to snowball from.
SnowballNoIncluded ==
    /\ UNCHANGED <<session, events, syn>>
    /\ UNCHANGED <<bx, srch>>
    /\ sb.pc = "loop"
    /\ LoopHas(sb.round_num, sb.max_rounds)
    /\ get_papers_final(papers, "INCLUDED") = {}
    /\ sb' = [sb EXCEPT !.pc = "break", !.rounds = @ + 1]
    /\ UNCHANGED <<papers, last>>

\* An iteration that collects candidates and breaks at line 82: none is new.
SnowballNoCandidates ==
    /\ UNCHANGED <<session, events, syn>>
    /\ UNCHANGED <<bx, srch>>
    /\ sb.pc = "loop"
    /\ LoopHas(sb.round_num, sb.max_rounds)
    /\ get_papers_final(papers, "INCLUDED") # {}
    /\ \E C \in Candidates(papers) :
          /\ NoCandidates(SnowballDocs(C, sb.round_num))
          /\ sb' = [sb EXCEPT !.pc = "break", !.rounds = @ + 1,
                              !.collects = @ + 1, !.ncand = 0]
    /\ UNCHANGED <<papers, last>>

\* A full iteration: insert the candidates, screen, count, decide to stop.
\* cands are the candidate sets the citation lookups can yield, responses the
\* lists a remote screening call can return.
Round(cands, responses) ==
    /\ UNCHANGED <<session, events, syn>>
    /\ UNCHANGED <<bx, srch>>
    /\ sb.pc = "loop"
    /\ LoopHas(sb.round_num, sb.max_rounds)
    /\ get_papers_final(papers, "INCLUDED") # {}
    /\ \E C \in cands :
         LET unique == SnowballDocs(C, sb.round_num)
             s1 == upsert_papers(papers, unique)
             pre == count_papers(s1)
         IN  /\ ~NoCandidates(unique)
             /\ \E outs \in Outcomes(s1, responses) :
                \E order \in Perms(Len(Batches(s1))) :
                  LET r == run_pass1(s1, outs, order)
                      post == count_papers(r.store)
                      new_included == post.included - pre.included
                      newly == {i \in DOMAIN s1 :
                                  /\ s1[i].screening_pass1 = NULL
                                  /\ r.store[i].screening_pass1 = "INCLUDE"
                                  /\ r.store[i].final_status = NULL}
                      sb1 == [sb EXCEPT !.rounds = @ + 1, !.collects = @ + 1,
                                        !.ncand = Len(unique),
                                        !.inserted = @ + upsert_count(papers, unique),
                                        !.screenings = @ + 1,
                                        !.newly = @ \cup newly]
                  IN  /\ papers' = r.store
                      /\ last' = Last("snowball", 0, r.raised)
                      /\ sb' = IF r.raised THEN [sb1 EXCEPT !.pc = "raised"]
                               ELSE LET sb2 == [sb1 EXCEPT
                                          !.new_included = new_included,
                                          !.total_new_included = @ + new_included]
                                    IN  IF StopReasons(new_included, Len(unique),
                                                       post.included, sb.target_size)
                                        THEN [sb2 EXCEPT !.pc = "break"]
                                        ELSE [sb2 EXCEPT !.round_num = @ + 1]

SnowballRound == Round(Candidates(papers), PipeResponses)

\* The loop is over (break, or the range is exhausted): run returns.
SnowballReturn ==
    /\ UNCHANGED <<session, events, syn>>
    /\ UNCHANGED <<bx, srch>>
    /\ \/ sb.pc = "break"
       \/ sb.pc = "loop" /\ ~LoopHas(sb.round_num, sb.max_rounds)
    /\ sb' = [sb EXCEPT !.pc = "returned"]
    /\ UNCHANGED <<papers, last>>

NextPipe ==
    \/ Ingest
    \/ run_screening_pass1
    \/ RecordHuman
    \/ resume_after_hitl
    \/ run_snowballing
    \/ SnowballNoIncluded
    \/ SnowballNoCandidates
    \/ SnowballRound
    \/ SnowballReturn

SpecPipe == InitPipe /\ [][NextPipe]_vars

(***************************************************************************)
(* The batch executor (run_pass1 lines 87-123, QualityAgent.run 74-87)     *)
(***************************************************************************)
SCREENING_MAX_WORKERS == 12
QUALITY_MAX_WORKERS == 8

MaxWorkers(kind) ==
    IF kind = "quality" THEN QUALITY_MAX_WORKERS ELSE SCREENING_MAX_WORKERS

\* The loop "for future in as_completed(futures)" has ended: every worker's
\* outcome has been collected.
AnyJoined(b) == \E n \in DOMAIN b.w : b.w[n] = "collected"

AllJoined(b) == \A n \in DOMAIN b.w : b.w[n] = "collected"

\* What the remote screening call of the batch runs returns.
BatchLabels == {"INCLUDE", "exclude"}

BatchResponses ==
    SeqsUpTo(RemoteEntries(Ids, BatchLabels) \cup {BadEntry}, MaxResp)

\* assess_paper's result dictionary for paper i.
QualityResult(i, score, notes, flag) ==
    [id |-> i, quality_score |-> score, quality_notes |-> notes, quality_flag |-> flag]

\* The scores and notes a remote quality call returns; 50 and "" are the
\* defaults result.get falls back to.
QualityReplies == {<<80, "ok", "methodology_weak">>, <<50, "", "none">>}

\* Unassessed without the test for a missing score.
UnassessedAnyScore(store) == SortedSeq(get_papers_final(store, "INCLUDED"))

\* Included papers without a quality score, in get_papers order.
Unassessed(store) ==
    SortedSeq({i \in get_papers_final(store, "INCLUDED") :
                   store[i].quality_score = NoScore})

InitBatch ==
    /\ session = SessionIdle
    /\ events = <<>>
    /\ syn = SynIdle
    /\ papers = upsert_papers(EmptyStore,
                    [n \in 1..3 |-> MkDoc(SortedSeq(Ids)[n], NULL, SortedSeq(Ids)[n], "W", NULL)])
    /\ sb = SbIdle
    /\ last = Last("init", 0, FALSE)
    /\ bx = BxIdle
    /\ srch = SrchIdle

\* run_pass1 up to the submission of the batches to the pool.
StartScreening ==
    /\ UNCHANGED <<session, events, syn>>
    /\ bx.pc = "idle"
    /\ Unscreened(papers) # {}
    /\ LET batches == Batches(papers)
       IN  bx' = [BxIdle EXCEPT !.kind = "screening", !.pc = "pool",
                                !.items = batches,
                                !.w = [n \in DOMAIN batches |-> "queued"],
                                !.out = [n \in DOMAIN batches |-> <<>>]]
    /\ UNCHANGED <<papers, sb, last, srch>>

\* QualityAgent.run up to the submission of one call per unassessed paper;
\* it runs after a screening run has ended.
StartQuality ==
    /\ UNCHANGED <<session, events, syn>>
    /\ bx.kind = "screening" /\ bx.pc \in {"done", "raised"}
    /\ Unassessed(papers) # <<>>
    /\ LET un == Unassessed(papers)
       IN  bx' = [BxIdle EXCEPT !.kind = "quality", !.pc = "pool",
                                !.items = [n \in DOMAIN un |-> <<un[n]>>],
                                !.w = [n \in DOMAIN un |-> "queued"],
                                !.out = [n \in DOMAIN un |-> <<>>]]
    /\ UNCHANGED <<papers, sb, last, srch>>

\* A pool thread takes the next submitted item.
WorkerStart ==
    /\ UNCHANGED <<session, events, syn>>
    /\ bx.pc = "pool"
    /\ \E n \in DOMAIN bx.w :
          /\ bx.w[n] = "queued"
          /\ \A m \in 1..(n - 1) : bx.w[m] # "queued"
          /\ Cardinality({m \in DOMAIN bx.w : bx.w[m] = "running"}) < MaxWorkers(bx.kind)
          /\ bx' = [bx EXCEPT !.w[n] = "running"]
    /\ UNCHANGED <<papers, sb, last, srch>>

\* The remote call of a running worker ends: it throws and the except branch
\* synthesizes the safe default, or it returns and the worker passes on what
\* it returned.
WorkerReturn ==
    /\ UNCHANGED <<session, events, syn>>
    /\ bx.pc = "pool"
    /\ \E n \in DOMAIN bx.w :
          /\ bx.w[n] = "running"
          /\ \/ /\ bx.kind = "screening"
                /\ \E o \in {Throw} \cup {Returned(ds) : ds \in BatchResponses} :
                      bx' = [bx EXCEPT
                               !.w[n] = "returned",
                               !.threw = IF o.throw THEN @ \cup {n} ELSE @,
                               !.out[n] = IF o.throw THEN ApiErrorDecisions(bx.items[n])
                                          ELSE o.decisions]
             \/ /\ bx.kind = "quality"
                /\ \/ bx' = [bx EXCEPT
                               !.w[n] = "returned", !.threw = @ \cup {n},
                               !.out[n] = <<QualityResult(bx.items[n][1], 50,
                                                          "Assessment failed.", "none")>>]
                   \/ \E r \in QualityReplies :
                         bx' = [bx EXCEPT
                                  !.w[n] = "returned",
                                  !.out[n] = <<QualityResult(bx.items[n][1], r[1], r[2], r[3])>>]
    /\ UNCHANGED <<papers, sb, last, srch>>

\* The main thread's as_completed loop takes a finished future.
Collect ==
    /\ UNCHANGED <<session, events, syn>>
    /\ bx.pc = "pool"
    /\ \E n \in DOMAIN bx.w :
          /\ bx.w[n] = "returned"
          /\ bx' = [bx EXCEPT !.w[n] = "collected",
                              !.completed_count = @ + 1,
                              !.all_results = @ \o bx.out[n]]
    /\ UNCHANGED <<papers, sb, last, srch>>

\* One iteration of the single-threaded write loop that follows the pool.
CommitStep ==
    /\ UNCHANGED <<session, events, syn>>
    /\ bx.pc = "pool"
    /\ AllJoined(bx)
    /\ bx.k < Len(bx.all_results)
    /\ LET d == bx.all_results[bx.k + 1]
       IN  IF bx.kind = "screening"
           THEN LET st == CommitOne([store |-> papers, counts |-> bx.counts,
                                     raised |-> FALSE, writes |-> bx.writes], d)
                IN  /\ papers' = st.store
                    /\ bx' = [bx EXCEPT !.k = @ + 1, !.counts = st.counts,
                                        !.writes = st.writes,
                                        !.pc = IF st.raised THEN "raised" ELSE @]
           ELSE /\ papers' = update_paper(papers, d.id,
                                [quality_score |-> d.quality_score,
                                 quality_notes |-> d.quality_notes,
                                 quality_flag |-> d.quality_flag])
                /\ bx' = [bx EXCEPT !.k = @ + 1, !.writes = Append(@, d.id)]
    /\ UNCHANGED <<sb, last, srch>>

\* The write loop is through: the agent logs and returns, and after a
\* screening run the orchestrator calls finalize_included.
BatchFinish ==
    /\ UNCHANGED <<session, events, syn>>
    /\ bx.pc = "pool"
    /\ AllJoined(bx)
    /\ bx.k = Len(bx.all_results)
    /\ bx' = [bx EXCEPT !.pc = "done"]
    /\ papers' = IF bx.kind = "screening" THEN finalize_included(papers) ELSE papers
    /\ UNCHANGED <<sb, last, srch>>

NextBatch ==
    \/ StartScreening
    \/ StartQuality
    \/ WorkerStart
    \/ WorkerReturn
    \/ Collect
    \/ CommitStep
    \/ BatchFinish

SpecBatch == InitBatch /\ [][NextBatch]_vars

(***************************************************************************)
(* The search stage (agents/search_agent.py)                               *)
(***************************************************************************)
\* Most documents one catalog query returns (max_per_query).
MaxHits == 2

\* Length _title_key truncates to.
TitleKeyLen == 60

\* Strings of the search stage are sequences of characters.
LowerChar(c) ==
    CASE c = "A" -> "a" [] c = "B" -> "b" [] c = "C" -> "c"
      [] c = "D" -> "d" [] c = "E" -> "e" [] c = "F" -> "f" [] OTHER -> c

LowerSeq(s) == [n \in DOMAIN s |-> LowerChar(s[n])]

\* str.strip(): leading and trailing blanks removed.
RECURSIVE Strip(_)
Strip(s) ==
    IF s = <<>> THEN s
    ELSE IF Head(s) = " " THEN Strip(Tail(s))
    ELSE IF s[Len(s)] = " " THEN Strip(SubSeq(s, 1, Len(s) - 1))
    ELSE s

\* (p.get("doi") or "").lower().strip()
NormDoi(d) == Strip(LowerSeq(d))

\* The characters [a-z0-9] of the model's alphabet.
IsAlnum(c) == c \in {"a", "b", "c", "d", "e", "f", "0", "1", "2", "3"}

\* _title_key without title.lower().
_title_key_cased(title) ==
    LET kept == SelectSeq(title, IsAlnum)
    IN  SubSeq(kept, 1, IF Len(kept) < TitleKeyLen THEN Len(kept) ELSE TitleKeyLen)

\* re.sub(r"[^a-z0-9]", "", title.lower())[:60]
_title_key(title) ==
    LET k == SelectSeq(LowerSeq(title), IsAlnum)
    IN  SubSeq(k, 1, IF Len(k) < TitleKeyLen THEN Len(k) ELSE TitleKeyLen)

\* _parse_work / _parse_paper: the id is the DOI, or the source id without one.
ParseWork(doi, title, source_id) ==
    MkDoc(IF doi # <<>> THEN doi ELSE source_id, doi, title, source_id, NULL)

Chars(n, c) == [x \in 1..n |-> c]

\* The documents the catalogs return: two spellings of one DOI, two documents
\* of another DOI of which one carries the title of the first up to
\* punctuation, a document without DOI, and two long titles that differ only
\* after the 60th character.
CatalogDocs ==
    {ParseWork(<<"1", "/", "a">>, <<"A", "b">>, <<"W", "1">>),
     ParseWork(<<"1", "/", "A", " ">>, <<"C", "d">>, <<"W", "2">>),
     ParseWork(<<"2", "/", "b">>, <<"a", "-", "B">>, <<"W", "3">>),
     ParseWork(<<"2", "/", "b">>, <<"E", "f">>, <<"W", "3">>),
     ParseWork(<<>>, <<"c", " ", "d">>, <<"W", "5">>),
     ParseWork(<<>>, Chars(TitleKeyLen, "e") \o <<"a">>, <<"W", "6">>),
     ParseWork(<<"3", "/", "c">>, Chars(TitleKeyLen, "e") \o <<"b">>, <<"W", "7">>)}

\* The query lists of one run: queries.get("openalex_queries"),
\* queries.get("semantic_scholar_queries").
OaQueries == <<"q1">>
SsQueries == <<"q1">>

\* One iteration of _deduplicate's loop on st = [seen_dois, seen_titles,
\* unique, enc]; enc records every document gone through and whether it was
\* kept.
DedupOneNoTitle(st, p) ==
    LET doi == NormDoi(p.doi)
        title_key == _title_key(p.title)
    IN  IF doi # <<>> /\ doi \in st.seen_dois
        THEN [st EXCEPT !.enc = Append(@, [doc |-> p, kept |-> FALSE])]
        ELSE [seen_dois |-> IF doi # <<>> THEN st.seen_dois \cup {doi} ELSE st.seen_dois,
              seen_titles |-> st.seen_titles \cup {title_key},
              unique |-> Append(st.unique, p),
              enc |-> Append(st.enc, [doc |-> p, kept |-> TRUE])]

DedupOne(st, p) ==
    LET doi == NormDoi(p.doi)
        title_key == _title_key(p.title)
    IN  IF doi # <<>> /\ doi \in st.seen_dois
        THEN [st EXCEPT !.enc = Append(@, [doc |-> p, kept |-> FALSE])]
        ELSE IF title_key \in st.seen_titles
        THEN [st EXCEPT !.enc = Append(@, [doc |-> p, kept |-> FALSE])]
        ELSE [seen_dois |-> IF doi # <<>> THEN st.seen_dois \cup {doi} ELSE st.seen_dois,
              seen_titles |-> st.seen_titles \cup {title_key},
              unique |-> Append(st.unique, p),
              enc |-> Append(st.enc, [doc |-> p, kept |-> TRUE])]

RECURSIVE _deduplicate(_, _)
_deduplicate(st, docs) ==
    IF docs = <<>> THEN st ELSE _deduplicate(DedupOne(st, Head(docs)), Tail(docs))

\* The body of one query's try block after the catalog has returned docs:
\* deduplicate against the carried seen-sets, insert, add to the total.
AfterQuery(docs) ==
    LET st == _deduplicate([seen_dois |-> srch.seen_dois,
                            seen_titles |-> srch.seen_titles,
                            unique |-> <<>>, enc |-> srch.enc], docs)
    IN  /\ papers' = upsert_papers(papers, st.unique)
        /\ srch' = [srch EXCEPT !.seen_dois = st.seen_dois,
                                !.seen_titles = st.seen_titles,
                                !.enc = st.enc,
                                !.total_inserted = @ + upsert_count(papers, st.unique),
                                !.i = @ + 1]

\* A query's except branch that gives the stage up instead of going on.
QueryFailedAborts(s) == [s EXCEPT !.pc = "done", !.failed = @ + 1]

\* The except branch of one query's try block (lines 57-58, 82-83): the
\* failure is logged and the loop goes on to the next query.
QueryFailed(s) == [s EXCEPT !.i = @ + 1, !.failed = @ + 1]

InitSearch ==
    /\ session = SessionIdle
    /\ events = <<>>
    /\ syn = SynIdle
    /\ papers = EmptyStore
    /\ sb = SbIdle
    /\ last = Last("init", 0, FALSE)
    /\ bx = BxIdle
    /\ srch = SrchIdle

\* SearchAgent.run up to its first OpenAlex query: empty seen-sets.
StartSearch ==
    /\ UNCHANGED <<session, events, syn>>
    /\ srch.pc = "idle"
    /\ srch' = [SrchIdle EXCEPT !.pc = "openalex", !.i = 1]
    /\ UNCHANGED <<papers, sb, last, bx>>

\* One OpenAlex query whose call returns.
OpenAlexQuery ==
    /\ UNCHANGED <<session, events, syn>>
    /\ srch.pc = "openalex" /\ srch.i <= Len(OaQueries)
    /\ \E docs \in SeqsUpTo(CatalogDocs, MaxHits) : AfterQuery(docs)
    /\ UNCHANGED <<sb, last, bx>>

\* One OpenAlex query whose call raises: logged, the loop goes on.
OpenAlexQueryFails ==
    /\ UNCHANGED <<session, events, syn>>
    /\ srch.pc = "openalex" /\ srch.i <= Len(OaQueries)
    /\ srch' = QueryFailed(srch)
    /\ UNCHANGED <<papers, sb, last, bx>>

\* The OpenAlex loop is through; the Semantic Scholar loop begins.
StartSemanticScholar ==
    /\ UNCHANGED <<session, events, syn>>
    /\ srch.pc = "openalex" /\ srch.i > Len(OaQueries)
    /\ srch' = [srch EXCEPT !.pc = "ss", !.i = 1]
    /\ UNCHANGED <<papers, sb, last, bx>>

\* One Semantic Scholar query whose call returns (max_per_query // 2 results).
SemanticScholarQuery ==
    /\ UNCHANGED <<session, events, syn>>
    /\ srch.pc = "ss" /\ srch.i <= Len(SsQueries)
    /\ \E docs \in SeqsUpTo(CatalogDocs, MaxHits \div 2) : AfterQuery(docs)
    /\ UNCHANGED <<sb, last, bx>>

SemanticScholarQueryFails ==
    /\ UNCHANGED <<session, events, syn>>
    /\ srch.pc = "ss" /\ srch.i <= Len(SsQueries)
    /\ srch' = QueryFailed(srch)
    /\ UNCHANGED <<papers, sb, last, bx>>

\* Both loops are through: run logs the total and returns it.
SearchReturn ==
    /\ UNCHANGED <<session, events, syn>>
    /\ srch.pc = "ss" /\ srch.i > Len(SsQueries)
    /\ srch' = [srch EXCEPT !.pc = "done"]
    /\ UNCHANGED <<papers, sb, last, bx>>

NextSearch ==
    \/ StartSearch
    \/ OpenAlexQuery
    \/ OpenAlexQueryFails
    \/ StartSemanticScholar
    \/ SemanticScholarQuery
    \/ SemanticScholarQueryFails
    \/ SearchReturn

SpecSearch == InitSearch /\ [][NextSearch]_vars

(***************************************************************************)
(* The stopping rule of a snowball round on given counts                   *)
(***************************************************************************)
\* Largest paper count the stopping rule is applied to.
MaxCount == 3

\* pre_counts["included"], post_counts["included"] and len(unique_candidates)
\* of one round, with the round's number.
RoundCounts ==
    [op : {"counted"}, pre : 0..MaxCount, post : 0..MaxCount,
     ncand : 1..MaxCount, round : 1..DEFAULT_MAX_SNOWBALL_ROUNDS]

\* A run in round last.round, just after post_counts was read (line 96).
InitStop ==
    /\ session = SessionIdle
    /\ events = <<>>
    /\ syn = SynIdle
    /\ papers = EmptyStore
    /\ bx = BxIdle
    /\ srch = SrchIdle
    /\ last \in RoundCounts
    /\ \E target \in 1..MaxCount :
          sb = [SbIdle EXCEPT !.pc = "counted", !.round_num = last.round,
                              !.rounds = last.round, !.collects = last.round,
                              !.max_rounds = DEFAULT_MAX_SNOWBALL_ROUNDS,
                              !.target_size = target]

\* Lines 98-123: new_included, the yield, the stop reasons, break or go on.
RoundTail ==
    /\ UNCHANGED <<session, events, syn>>
    /\ sb.pc = "counted"
    /\ LET new_included == last.post - last.pre
           sb1 == [sb EXCEPT !.new_included = new_included,
                             !.total_new_included = @ + new_included,
                             !.ncand = last.ncand, !.screenings = @ + 1]
       IN  sb' = IF StopReasons(new_included, last.ncand, last.post, sb.target_size)
                 THEN [sb1 EXCEPT !.pc = "break"]
                 ELSE [sb1 EXCEPT !.pc = "loop", !.round_num = @ + 1]
    /\ UNCHANGED <<papers, last, bx, srch>>

NextStop ==
    \/ RoundTail
    \/ SnowballNoIncluded
    \/ SnowballReturn

SpecStop == InitStop /\ [][NextStop]_vars

(***************************************************************************)
(* The stage machine: the Progress page and the Orchestrator               *)
(***************************************************************************)
\* The pipeline is launched and the queries are regenerated only while the log
\* holds fewer than MaxLogged events.
MaxLogged == 3

\* orchestrator.STAGES
STAGES ==
    <<"IDLE", "QUERY_FORMULATION", "QUERY_APPROVAL", "SEARCHING", "DEDUPLICATION",
      "SCREENING_PASS_1", "HITL_REVIEW", "SNOWBALLING", "QUALITY_ASSESSMENT",
      "SYNTHESIS", "COMPLETE">>

\* The review configurations the Define Review page saves: max_snowball_rounds
\* is 0 when snowballing is disabled.
StageConfigs ==
    {[hitl_enabled |-> h, enable_snowballing |-> s,
      max_snowball_rounds |-> IF s THEN DEFAULT_MAX_SNOWBALL_ROUNDS ELSE 0] :
        h \in BOOLEAN, s \in BOOLEAN}

\* log_event numbering every event 1.
log_event_same_id(log, stage, message) ==
    Append(log, [id |-> 1, stage |-> stage, message |-> message])

\* database.log_event: the next id is MAX(id) + 1.
log_event(log, stage, message) ==
    Append(log, [id |-> (IF log = <<>> THEN 0 ELSE log[Len(log)].id) + 1,
                 stage |-> stage, message |-> message])

\* Orchestrator.set_stage: the stage goes into the session context, an event
\* naming it goes into the log.
set_stage_session(s, stage) == [s EXCEPT !.pipeline_stage = stage]
set_stage_events(log, stage) == log_event(log, stage, "Entering stage")

\* The page is at rest: no handler is running, the script waits for a button.
AtRestAlways(s) == TRUE

AtRest(s) == s.pc \in {"page", "error"}

\* No operation of an earlier stage is in flight when a handler starts.
HandlerFree(s, snow) == s.pc = "page" /\ snow.pc \notin {"loop", "break"}

\* Lines 229-234: the stage after screening.
NextAfterScreening(cfg_hitl, cfg_snowball, borderline_count) ==
    IF cfg_hitl /\ borderline_count > 0 THEN "HITL_REVIEW"
    ELSE IF cfg_snowball THEN "RUNNING_SNOWBALL"
    ELSE "RUNNING_QUALITY"

InitStage ==
    /\ papers = EmptyStore
    /\ sb = SbIdle
    /\ last = Last("init", 0, FALSE)
    /\ bx = BxIdle
    /\ srch = SrchIdle
    /\ session = SessionIdle
    /\ events = <<>>
    /\ syn = SynIdle

\* The launch buttons of the Progress page (stage IDLE) and of the Define
\* Review page (any stage, while the page is at rest): the configuration is
\* saved and the stage set to RUNNING_QUERY.
Launch ==
    /\ UNCHANGED syn
    /\ AtRest(session)
    /\ Len(events) < MaxLogged
    /\ \E cfg \in StageConfigs : \E query_only \in BOOLEAN :
          session' = [session EXCEPT
                        !.pipeline_stage = "RUNNING_QUERY", !.pc = "page",
                        !.run_query_only = query_only,
                        !.hitl_enabled = cfg.hitl_enabled,
                        !.enable_snowballing = cfg.enable_snowballing,
                        !.max_snowball_rounds = cfg.max_snowball_rounds]
    /\ UNCHANGED <<papers, sb, last, bx, srch, events>>

\* The stages the script of the Progress page has a branch for (lines 108-352).
HandledStages ==
    {"IDLE", "RUNNING_QUERY", "QUERY_APPROVAL", "RUNNING_SEARCH", "RUNNING_SCREENING",
     "HITL_REVIEW", "RUNNING_SNOWBALL", "RUNNING_QUALITY", "RUNNING_SYNTHESIS",
     "COMPLETE"}

\* "Reset to beginning", offered after a handler caught an exception. The
\* click reruns the script, which dispatches on the stored stage: the button
\* is read (and line 81 sets IDLE) only if the branch that rendered it runs
\* and fails again; with a stage no branch matches the script renders the
\* stage bar alone and the stage is left as it is.
ResetToBeginning ==
    /\ UNCHANGED syn
    /\ session.pc = "error"
    /\ session' = IF session.pipeline_stage \in HandledStages
                  THEN [session EXCEPT !.pipeline_stage = "IDLE", !.pc = "page"]
                  ELSE [session EXCEPT !.pc = "page"]
    /\ UNCHANGED <<papers, sb, last, bx, srch, events>>

\* RUNNING_QUERY: run_query_formulation enters QUERY_FORMULATION.
QueryBegin ==
    /\ UNCHANGED syn
    /\ session.pipeline_stage = "RUNNING_QUERY" /\ HandlerFree(session, sb)
    /\ session' = [set_stage_session(session, "QUERY_FORMULATION") EXCEPT !.pc = "running"]
    /\ events' = set_stage_events(events, "QUERY_FORMULATION")
    /\ UNCHANGED <<papers, sb, last, bx, srch>>

\* The query agent returns: QUERY_APPROVAL is entered; or it raises and the
\* page shows the error.
QueryReturn ==
    /\ UNCHANGED syn
    /\ session.pipeline_stage = "QUERY_FORMULATION" /\ session.pc = "running"
    /\ \/ /\ session' = [set_stage_session(session, "QUERY_APPROVAL") EXCEPT !.pc = "page"]
          /\ events' = set_stage_events(events, "QUERY_APPROVAL")
       \/ /\ session' = [session EXCEPT !.pc = "error"]
          /\ UNCHANGED events
    /\ UNCHANGED <<papers, sb, last, bx, srch>>

\* QUERY_APPROVAL: "Approve & Run Search" (disabled in query-only mode).
ApproveQueries ==
    /\ UNCHANGED syn
    /\ session.pipeline_stage = "QUERY_APPROVAL" /\ session.pc = "page"
    /\ ~session.run_query_only
    /\ session' = [session EXCEPT !.pipeline_stage = "RUNNING_SEARCH"]
    /\ UNCHANGED <<papers, sb, last, bx, srch, events>>

\* QUERY_APPROVAL: "Regenerate queries".
RegenerateQueries ==
    /\ UNCHANGED syn
    /\ session.pipeline_stage = "QUERY_APPROVAL" /\ session.pc = "page"
    /\ Len(events) < MaxLogged
    /\ session' = [session EXCEPT !.pipeline_stage = "RUNNING_QUERY"]
    /\ UNCHANGED <<papers, sb, last, bx, srch, events>>

\* RUNNING_SEARCH: run_search enters SEARCHING.
SearchBegin ==
    /\ UNCHANGED syn
    /\ session.pipeline_stage = "RUNNING_SEARCH" /\ HandlerFree(session, sb)
    /\ session' = [set_stage_session(session, "SEARCHING") EXCEPT !.pc = "running"]
    /\ events' = set_stage_events(events, "SEARCHING")
    /\ UNCHANGED <<papers, sb, last, bx, srch>>

\* The search agent has stored what the queries found; run_search enters
\* DEDUPLICATION and logs the total.
SearchDone ==
    /\ UNCHANGED syn
    /\ session.pipeline_stage = "SEARCHING" /\ session.pc = "running"
    /\ \E docs \in SeqsUpTo(SearchDocs, MaxIngest + 1) :
          /\ papers' = upsert_papers(papers, docs)
          /\ last' = Last("upsert", Len(docs) - upsert_count(papers, docs), FALSE)
    /\ session' = [set_stage_session(session, "DEDUPLICATION") EXCEPT !.pc = "returned"]
    /\ events' = log_event(set_stage_events(events, "DEDUPLICATION"),
                           "DEDUPLICATION", "unique papers after deduplication")
    /\ UNCHANGED <<sb, bx, srch>>

\* The page, after run_search returned: on to screening.
AfterSearch ==
    /\ UNCHANGED syn
    /\ session.pipeline_stage = "DEDUPLICATION" /\ session.pc = "returned"
    /\ session' = [session EXCEPT !.pipeline_stage = "RUNNING_SCREENING", !.pc = "page"]
    /\ UNCHANGED <<papers, sb, last, bx, srch, events>>

\* RUNNING_SCREENING: run_screening_pass1 enters SCREENING_PASS_1.
ScreeningBegin ==
    /\ UNCHANGED syn
    /\ session.pipeline_stage = "RUNNING_SCREENING" /\ HandlerFree(session, sb)
    /\ session' = [set_stage_session(session, "SCREENING_PASS_1") EXCEPT !.pc = "running"]
    /\ events' = set_stage_events(events, "SCREENING_PASS_1")
    /\ UNCHANGED <<papers, sb, last, bx, srch>>

\* run_pass1 and finalize_included return and the page picks the next stage
\* from the returned counts; or run_pass1 raises and the page shows the error.
ScreeningDone ==
    /\ UNCHANGED syn
    /\ session.pipeline_stage = "SCREENING_PASS_1" /\ session.pc = "running"
    /\ \E outs \in Outcomes(papers, PipeResponses) :
       \E order \in Perms(Len(Batches(papers))) :
          LET r == run_pass1(papers, outs, order)
              borderline_count == r.counts.borderline
          IN  /\ papers' = IF r.raised THEN r.store ELSE finalize_included(r.store)
              /\ last' = Last("screen", 0, r.raised)
              /\ session' =
                   IF r.raised THEN [session EXCEPT !.pc = "error"]
                   ELSE [session EXCEPT
                           !.pc = "page", !.screen_borderline = borderline_count,
                           !.pipeline_stage =
                               NextAfterScreening(session.hitl_enabled,
                                                  session.enable_snowballing,
                                                  borderline_count)]
    /\ UNCHANGED <<sb, bx, srch, events>>

\* HITL_REVIEW: the Include / Exclude button of a borderline paper that has no
\* human decision.
RecordHumanDecision ==
    /\ UNCHANGED syn
    /\ session.pipeline_stage = "HITL_REVIEW" /\ session.pc = "page"
    /\ \E i \in DOMAIN papers : \E d \in {"INCLUDE", "EXCLUDE"} :
          /\ papers[i].screening_pass1 = "BORDERLINE"
          /\ papers[i].human_decision = NULL
          /\ papers' = update_paper(papers, i, [human_decision |-> d])
    /\ last' = Last("human", 0, FALSE)
    /\ UNCHANGED <<sb, bx, srch, session, events>>

\* HITL_REVIEW: "Continue Pipeline".
ContinuePipeline ==
    /\ UNCHANGED syn
    /\ session.pipeline_stage = "HITL_REVIEW" /\ session.pc = "page"
    /\ papers' = finalize_included(apply_human_decisions(papers))
    /\ last' = Last("resume", 0, FALSE)
    /\ session' = [session EXCEPT !.pipeline_stage =
                      IF session.enable_snowballing THEN "RUNNING_SNOWBALL"
                      ELSE "RUNNING_QUALITY"]
    /\ UNCHANGED <<sb, bx, srch, events>>

\* RUNNING_SNOWBALL: run_snowballing enters SNOWBALLING and starts the loop.
SnowballBegin ==
    /\ UNCHANGED syn
    /\ session.pipeline_stage = "RUNNING_SNOWBALL" /\ HandlerFree(session, sb)
    /\ session' = [set_stage_session(session, "SNOWBALLING") EXCEPT !.pc = "running"]
    /\ events' = set_stage_events(events, "SNOWBALLING")
    /\ sb' = [SbIdle EXCEPT !.pc = "loop", !.round_num = 1,
                            !.max_rounds = session.max_snowball_rounds,
                            !.target_size = DEFAULT_TARGET_CORPUS_SIZE]
    /\ UNCHANGED <<papers, last, bx, srch>>

\* run_snowballing has returned: on to quality; or it raised: the error.
AfterSnowball ==
    /\ UNCHANGED syn
    /\ session.pipeline_stage = "SNOWBALLING" /\ session.pc = "running"
    /\ sb.pc \in {"returned", "raised"}
    /\ session' = IF sb.pc = "raised" THEN [session EXCEPT !.pc = "error"]
                  ELSE [session EXCEPT !.pipeline_stage = "RUNNING_QUALITY",
                                       !.pc = "page"]
    /\ sb' = SbIdle
    /\ UNCHANGED <<papers, last, bx, srch, events>>

\* QualityAgent.run as one call: res[k] is what the worker of the k-th
\* unassessed paper returned.
RECURSIVE quality_run(_, _, _, _)
quality_run(store, un, res, k) ==
    IF k > Len(un) THEN store
    ELSE quality_run(update_paper(store, un[k],
                         [quality_score |-> res[k][1], quality_notes |-> res[k][2],
                          quality_flag |-> res[k][3]]),
                     un, res, k + 1)

\* RUNNING_QUALITY: run_quality_assessment enters QUALITY_ASSESSMENT.
QualityBegin ==
    /\ UNCHANGED syn
    /\ session.pipeline_stage = "RUNNING_QUALITY" /\ HandlerFree(session, sb)
    /\ session' = [set_stage_session(session, "QUALITY_ASSESSMENT") EXCEPT !.pc = "running"]
    /\ events' = set_stage_events(events, "QUALITY_ASSESSMENT")
    /\ UNCHANGED <<papers, sb, last, bx, srch>>

\* The quality agent returns; the page goes on to synthesis.
QualityDone ==
    /\ UNCHANGED syn
    /\ session.pipeline_stage = "QUALITY_ASSESSMENT" /\ session.pc = "running"
    /\ LET un == Unassessed(papers)
       IN  \E res \in [DOMAIN un -> QualityReplies \cup {<<50, "Assessment failed.", "none">>}] :
              papers' = quality_run(papers, un, res, 1)
    /\ last' = Last("quality", 0, FALSE)
    /\ session' = [session EXCEPT !.pipeline_stage = "RUNNING_SYNTHESIS", !.pc = "page"]
    /\ UNCHANGED <<sb, bx, srch, events>>

\* RUNNING_SYNTHESIS: run_synthesis enters SYNTHESIS.
SynthesisBegin ==
    /\ UNCHANGED syn
    /\ session.pipeline_stage = "RUNNING_SYNTHESIS" /\ HandlerFree(session, sb)
    /\ session' = [set_stage_session(session, "SYNTHESIS") EXCEPT !.pc = "running"]
    /\ events' = set_stage_events(events, "SYNTHESIS")
    /\ UNCHANGED <<papers, sb, last, bx, srch>>

\* The synthesis agent returns and the page sets COMPLETE; or it raises.
SynthesisDone ==
    /\ UNCHANGED syn
    /\ session.pipeline_stage = "SYNTHESIS" /\ session.pc = "running"
    /\ \/ session' = [session EXCEPT !.pipeline_stage = "COMPLETE", !.pc = "page"]
       \/ session' = [session EXCEPT !.pc = "error"]
    /\ UNCHANGED <<papers, sb, last, bx, srch, events>>

NextStage ==
    \/ Launch
    \/ ResetToBeginning
    \/ QueryBegin
    \/ QueryReturn
    \/ ApproveQueries
    \/ RegenerateQueries
    \/ SearchBegin
    \/ SearchDone
    \/ AfterSearch
    \/ ScreeningBegin
    \/ ScreeningDone
    \/ RecordHumanDecision
    \/ ContinuePipeline
    \/ SnowballBegin
    \/ SnowballNoIncluded
    \/ SnowballNoCandidates
    \/ SnowballRound
    \/ SnowballReturn
    \/ AfterSnowball
    \/ QualityBegin
    \/ QualityDone
    \/ SynthesisBegin
    \/ SynthesisDone

SpecStage == InitStage /\ [][NextStage]_vars

(***************************************************************************)
(* The write loop of run_pass1 on given collected decisions                *)
(***************************************************************************)
\* The store of a later screening run: p1 is unscreened and submitted, p2 was
\* decided INCLUDE and finalized by an earlier run, p3 is not stored.
CommitStore ==
    LET s0 == upsert_papers(EmptyStore,
                  <<MkDoc("p1", NULL, "p1", "W", NULL), MkDoc("p2", NULL, "p2", "W", NULL)>>)
        s1 == update_paper(s0, "p2", [screening_pass1 |-> "INCLUDE",
                                      screening_pass1_reason |-> "llm",
                                      screening_pass1_confidence |-> 90])
    IN  finalize_included(s1)

\* Entries the collected responses hold: each id of the universe and a missing
\* id, with every label of Labels and a missing label, and a malformed entry.
CommitEntries ==
    RemoteEntries(Ids \cup {"NOID"}, Labels \cup {NoLabel}) \cup {BadEntry}

\* run_pass1 at line 101: every future is collected, all_decisions is given.
InitCommit ==
    /\ papers = CommitStore
    /\ sb = SbIdle
    /\ last = Last("init", 0, FALSE)
    /\ srch = SrchIdle
    /\ session = SessionIdle
    /\ events = <<>>
    /\ syn = SynIdle
    /\ \E ds \in SeqsUpTo(CommitEntries, MaxResp) :
          bx = [BxIdle EXCEPT !.kind = "screening", !.pc = "pool",
                              !.items = Batches(CommitStore),
                              !.w = [n \in DOMAIN Batches(CommitStore) |-> "collected"],
                              !.out = [n \in DOMAIN Batches(CommitStore) |-> ds],
                              !.all_results = ds,
                              !.completed_count = Len(Batches(CommitStore))]

NextCommit ==
    \/ CommitStep
    \/ BatchFinish

SpecCommit == InitCommit /\ [][NextCommit]_vars

(***************************************************************************)
(* The quality stage on a given store (agents/quality_agent.py)            *)
(***************************************************************************)
\* What a remote quality call may return besides QualityReplies: a score above
\* 100, a score below 0, and a null score.
RawQualityReplies ==
    QualityReplies \cup {<<150, "ok", "none">>, <<-5, "ok", "none">>,
                         <<NoScore, "ok", "none">>}

\* The except branch of assess_paper.
AssessmentFailed == <<50, "Assessment failed.", "none">>

\* The states a stored paper is in when the quality stage starts.
QualityRows(i) ==
    LET r == NewRow(MkDoc(i, NULL, i, "W", NULL))
        inc == [r EXCEPT !.screening_pass1 = "INCLUDE", !.screening_pass1_reason = "llm",
                         !.screening_pass1_confidence = 90, !.final_status = "INCLUDED"]
    IN  {r,
         inc,
         [inc EXCEPT !.quality_score = 70, !.quality_notes = "earlier",
                     !.quality_flag = "low_citations"],
         [r EXCEPT !.screening_pass1 = "EXCLUDE", !.screening_pass1_reason = "llm",
                   !.screening_pass1_confidence = 90, !.final_status = "EXCLUDED"],
         [r EXCEPT !.screening_pass1 = "BORDERLINE", !.screening_pass1_reason = "llm",
                   !.screening_pass1_confidence = 50]}

InitQuality ==
    /\ \E s \in [Ids -> UNION {QualityRows(i) : i \in Ids}] :
          /\ \A i \in Ids : s[i] \in QualityRows(i)
          /\ papers = s
    /\ sb = SbIdle
    /\ last = Last("init", 0, FALSE)
    /\ bx = BxIdle
    /\ srch = SrchIdle
    /\ session = SessionIdle
    /\ events = <<>>
    /\ syn = SynIdle

\* QualityAgent.run writing the failure note into the screening reason too.
QualityRunWritesReason(replies) ==
    /\ UNCHANGED syn
    /\ LET un == Unassessed(papers)
       IN  \E res \in [DOMAIN un -> replies] :
              LET q == quality_run(papers, un, res, 1)
              IN  papers' = [i \in DOMAIN q |->
                               IF q[i].quality_notes = "Assessment failed."
                               THEN [q[i] EXCEPT !.screening_pass1_reason = "Assessment failed."]
                               ELSE q[i]]
    /\ last' = Last("quality", 0, FALSE)
    /\ UNCHANGED <<sb, bx, srch, session, events>>

\* QualityAgent.run as one call; replies are the results assess_paper can
\* return for a paper.
QualityRun(replies) ==
    /\ UNCHANGED syn
    /\ LET un == Unassessed(papers)
       IN  \E res \in [DOMAIN un -> replies] :
              papers' = quality_run(papers, un, res, 1)
    /\ last' = Last("quality", 0, FALSE)
    /\ UNCHANGED <<sb, bx, srch, session, events>>

\* Orchestrator.run_quality_assessment.
run_quality_assessment == QualityRun(RawQualityReplies \cup {AssessmentFailed})

NextQuality == run_quality_assessment

SpecQuality == InitQuality /\ [][NextQuality]_vars

(***************************************************************************)
(* Synthesis and relevance scoring (agents/synthesis_agent.py,             *)
(* agents/relevance_agent.py)                                              *)
(***************************************************************************)
\* Cosine similarities in thousandths, as np.dot of two unit vectors gives
\* them: opposite, unrelated (below the stretched range), inside
\* it, and one float32 rounding step above 1.
Sims == {-1000, 0, 650, 1001}

\* Line 63: round(max(0.0, min(100.0, (sim - 0.3) / 0.7 * 100)), 1), the
\* similarity in thousandths and the score in tenths.
SimScore(sim) ==
    LET num == (sim - 300) * 10
    IN  IF num <= 0 THEN 0
        ELSE IF num >= 1000 * 7 THEN 1000
        ELSE (2 * num + 7) \div 14

\* Line 87 without the cap at 100.
KeywordScoreNoCap(rq_words, paper_words) ==
    LET n == IF Cardinality(rq_words) > 1 THEN Cardinality(rq_words) ELSE 1
        k == Cardinality(rq_words \cap paper_words)
    IN  (2 * k * 1500 + n) \div (2 * n)

\* Lines 86-87: overlap = |rq & paper| / max(|rq|, 1) and
\* round(min(100.0, overlap * 150), 1), the score in tenths.
KeywordScore(rq_words, paper_words) ==
    LET n == IF Cardinality(rq_words) > 1 THEN Cardinality(rq_words) ELSE 1
        k == Cardinality(rq_words \cap paper_words)
    IN  IF k * 1500 >= 1000 * n THEN 1000
        ELSE (2 * k * 1500 + n) \div (2 * n)

\* Token sets _tokenise yields for a research question and for a paper's text.
QuestionWords == {{}, {"t1", "t2"}, {"t1", "t2", "t3"}}
PaperWords == {{"t1"}, {"t4"}, {"t1", "t2", "t3"}}

\* The relevance_score column after the loop of lines 53-65 (sims[i] is the
\* similarity of paper i) or of lines 83-88 (score[i] is its keyword score).
WriteScores(store, ids, score) ==
    [i \in DOMAIN store |->
        IF i \in ids THEN [store[i] EXCEPT !.relevance_score = score[i]] ELSE store[i]]

\* The rows a paper is in when synthesis starts.
SynthesisRows(i) ==
    {r \in QualityRows(i) : r.quality_score = NoScore
                            /\ r.final_status \in {"INCLUDED", "EXCLUDED"}}

InitSynthesis ==
    /\ \E s \in [PipeIds -> UNION {SynthesisRows(i) : i \in PipeIds}] :
          /\ \A i \in PipeIds : s[i] \in SynthesisRows(i)
          /\ papers = s
    /\ sb = SbIdle
    /\ last = Last("init", 0, FALSE)
    /\ bx = BxIdle
    /\ srch = SrchIdle
    /\ session = SessionIdle
    /\ events = <<>>
    /\ syn = SynIdle

\* No synthesis and no relevance scoring is running: run has not started, has
\* returned or has raised, or a relevance scoring of the Results page raised.
SynAtRest == syn.pc \in {"idle", "returned", "raised", "scoring_raised"}

\* SynthesisAgent.run, lines 39-44: nothing included returns {} at once.
SynthesisStart ==
    /\ SynAtRest
    /\ syn' = IF get_papers_final(papers, "INCLUDED") = {}
              THEN [syn EXCEPT !.pc = "returned"]
              ELSE [syn EXCEPT !.pc = "embed", !.vectors = FALSE, !.label = NULL]
    /\ last' = Last("synthesis", 0, FALSE)
    /\ UNCHANGED <<papers, sb, bx, srch, session, events>>

\* Lines 52-66: the document embeddings come back and are saved, or the call
\* fails and vectors is empty; fewer than four papers are one cluster.
EmbedDocuments ==
    /\ syn.pc = "embed"
    /\ \/ syn' = [syn EXCEPT !.pc = "relevance", !.vectors = TRUE,
                             !.embeddings = @ \cup get_papers_final(papers, "INCLUDED")]
       \/ syn' = [syn EXCEPT !.pc = "relevance", !.vectors = FALSE]
    /\ UNCHANGED <<papers, sb, last, bx, srch, session, events>>

\* RelevanceAgent.run with stored embeddings (lines 47-65): the research
\* question is embedded and every paper with an embedding is scored.
\* raised is the pc a failed embedding call leaves, done the pc after scoring.
ScoreBySimilarity(raised, done) ==
    LET ids == get_papers_final(papers, "INCLUDED") \cap syn.embeddings
    IN  \/ /\ syn' = [syn EXCEPT !.pc = raised]
           /\ UNCHANGED papers
        \/ \E sims \in [ids -> Sims] :
              /\ papers' = WriteScores(papers, ids, [i \in ids |-> SimScore(sims[i])])
              /\ syn' = [syn EXCEPT !.pc = done, !.method = "similarity"]

\* RelevanceAgent.run without stored embeddings (lines 42-45, 81-88).
ScoreByKeywords(done) ==
    LET ids == get_papers_final(papers, "INCLUDED")
    IN  \E rq \in QuestionWords : \E w \in [ids -> PaperWords] :
           /\ papers' = WriteScores(papers, ids, [i \in ids |-> KeywordScore(rq, w[i])])
           /\ syn' = [syn EXCEPT !.pc = done, !.method = "keyword",
                                 !.rq_words = rq, !.words = w]

\* Lines 69-73: relevance scoring inside synthesis, only if vectors came back.
RelevanceInSynthesis ==
    /\ syn.pc = "relevance"
    /\ IF syn.vectors
       THEN ScoreBySimilarity("raised", "label")
       ELSE /\ syn' = [syn EXCEPT !.pc = "label"]
            /\ UNCHANGED papers
    /\ UNCHANGED <<sb, last, bx, srch, session, events>>

\* Lines 82-100 and 178-194: the cluster is labelled by the remote call, or by
\* the except branch's "Research cluster".
LabelCluster ==
    /\ syn.pc = "label"
    /\ \E l \in {"llm label", "Research cluster"} :
          syn' = [syn EXCEPT !.pc = "overall", !.label = l]
    /\ UNCHANGED <<papers, sb, last, bx, srch, session, events>>

\* Lines 108-121 and 196-227: the narrative comes from the remote call, or the
\* except branch returns the stub; save_synthesis stores it and run returns.
OverallSynthesis ==
    /\ syn.pc = "overall"
    /\ \E narrative \in {"llm narrative", "Synthesis generation failed."} :
          syn' = [syn EXCEPT !.pc = "returned",
                             !.result = [narrative_overview |-> narrative,
                                         label |-> syn.label]]
    /\ UNCHANGED <<papers, sb, last, bx, srch, session, events>>

\* Orchestrator.run_relevance_scoring, from the Results page.
run_relevance_scoring ==
    /\ SynAtRest
    /\ get_papers_final(papers, "INCLUDED") # {}
    /\ IF syn.embeddings = {}
       THEN ScoreByKeywords(syn.pc)
       ELSE ScoreBySimilarity("scoring_raised", syn.pc)
    /\ last' = Last("relevance", 0, FALSE)
    /\ UNCHANGED <<sb, bx, srch, session, events>>

NextSynthesis ==
    \/ SynthesisStart
    \/ EmbedDocuments
    \/ RelevanceInSynthesis
    \/ LabelCluster
    \/ OverallSynthesis
    \/ run_relevance_scoring

SpecSynthesis == InitSynthesis /\ [][NextSynthesis]_vars

(***************************************************************************)
(* Claims over the pipeline specification                                  *)
(***************************************************************************)
\* C1: every document whose final_status is INCLUDED has screening decision
\* INCLUDE, in every state the pipeline operations reach.
C1_IncludedHasInclude ==
    \A i \in DOMAIN papers :
        papers[i].final_status = "INCLUDED" => papers[i].screening_pass1 = "INCLUDE"

\* C2: every document whose final_status is EXCLUDED has screening decision
\* EXCLUDE or human override EXCLUDE.
C2_ExcludedHasExclude ==
    \A i \in DOMAIN papers :
        papers[i].final_status = "EXCLUDED" =>
            \/ papers[i].screening_pass1 = "EXCLUDE"
            \/ papers[i].human_decision = "EXCLUDE"

\* Documents an insertion may be given: each id as a search result without
\* DOI and source id, and as a snowball candidate with both.
AnyDocs ==
    {MkDoc(i, NULL, i, NULL, NULL) : i \in PipeIds}
      \cup {MkDoc(i, "10.1/x", "other title", "W", "snowball_round_1") : i \in PipeIds}

\* C6: insertion is idempotent by id: inserting a document list twice leaves
\* the store that inserting it once leaves, and an insert never changes a field
\* of a row that is already stored.
C6_UpsertIdempotent ==
    \A docs \in SeqsUpTo(AnyDocs, MaxIngest + 1) :
        LET once == upsert_papers(papers, docs)
        IN  /\ upsert_papers(once, docs) = once
            /\ \A i \in DOMAIN papers : once[i] = papers[i]
            /\ DOMAIN once = DOMAIN papers \cup {docs[k].id : k \in 1..Len(docs)}

\* C6 witness: an upsert has just skipped a stored document, and every stored
\* row carries a screening decision and a final status.
C6_Witness ==
    /\ last.op = "upsert" /\ last.skipped > 0
    /\ DOMAIN papers # {}
    /\ \A i \in DOMAIN papers :
          papers[i].screening_pass1 # NULL /\ papers[i].final_status # NULL

\* C8: when run_snowballing has returned, every document a snowball round's
\* screening left with decision INCLUDE and no final status is INCLUDED.
C8_SnowballFinalizes ==
    sb.pc = "returned" => \A i \in sb.newly : papers[i].final_status = "INCLUDED"

\* C9: the loop never begins more than max_rounds iterations, the run can
\* always take its next step, and a run with max_rounds = 3 whose first round
\* collects zero new candidates stops in round 1 with no insertion, no
\* screening and total_new_included = 0.
C9_SnowballTermination ==
    /\ sb.rounds <= sb.max_rounds
    /\ sb.pc \in {"loop", "break"} =>
          ENABLED (SnowballNoIncluded \/ SnowballNoCandidates
                     \/ SnowballRound \/ SnowballReturn)
    /\ (/\ sb.pc \in {"break", "returned"}
        /\ sb.max_rounds = DEFAULT_MAX_SNOWBALL_ROUNDS
        /\ sb.collects >= 1 /\ sb.ncand = 0)
       => (/\ sb.rounds = 1 /\ sb.round_num = 1
           /\ sb.inserted = 0 /\ sb.screenings = 0
           /\ sb.total_new_included = 0)

\* C9 witness: a run with max_rounds = 3 has returned after a first round that
\* collected candidates from an included paper and found none new.
C9_Witness ==
    /\ sb.pc = "returned" /\ sb.max_rounds = DEFAULT_MAX_SNOWBALL_ROUNDS
    /\ sb.collects = 1 /\ sb.ncand = 0 /\ sb.total_new_included = 0

\* C10: after a round's screening, the loop goes on to a further round only if
\* the round's new_included is not zero and its yield rate
\* new_included / candidates is not below the minimum; and a further round is
\* begun only while round_num <= max_rounds.
C10_NoRoundAfterStop ==
    /\ (sb.pc = "loop" /\ sb.screenings >= 1) =>
          /\ sb.new_included # 0
          /\ ~(sb.new_included * MinYieldDen < MinYieldNum * sb.ncand)
    /\ sb.rounds >= 2 => sb.rounds <= sb.max_rounds

\* C10 witness: round 1 of a run that may run three rounds screened its
\* candidates, counted zero newly included, and the loop is left.
C10_Witness ==
    /\ sb.pc = "break" /\ sb.max_rounds = DEFAULT_MAX_SNOWBALL_ROUNDS
    /\ sb.screenings = 1 /\ sb.ncand >= 1 /\ sb.new_included = 0

(***************************************************************************)
(* Claims over the batch executor                                          *)
(***************************************************************************)
\* C3: when a batch in which some worker call failed has completed, the store
\* has received exactly one outcome for each work item of the batch: no item
\* is missing from the writes and none was written twice.
C3_ExactlyOneOutcome ==
    (bx.pc = "done" /\ bx.threw # {}) =>
        \A n \in DOMAIN bx.items : \A j \in DOMAIN bx.items[n] :
            Cardinality({x \in DOMAIN bx.writes : bx.writes[x] = bx.items[n][j]}) = 1

\* C4: a step of a screening or quality batch that writes to the paper store
\* is taken only when every worker's outcome has been collected: no row
\* changes and no update is issued while a worker call is queued, running or
\* not yet collected.
C4_NoWriteInFlight ==
    [][(papers' # papers \/ Len(bx'.writes) > Len(bx.writes)) =>
          (bx.pc = "pool" /\ \A n \in DOMAIN bx.w : bx.w[n] = "collected")]_vars

\* C4 witness: a screening run of two batches, one of whose calls threw, is in
\* the middle of its write loop: some rows are written, some outcomes are left.
C4_Witness ==
    /\ bx.kind = "screening" /\ bx.pc = "pool" /\ Len(bx.items) = 2
    /\ bx.threw # {} /\ bx.completed_count = 2
    /\ Len(bx.writes) >= 1 /\ bx.k < Len(bx.all_results)

\* C5: after a screening run has completed, every paper of a batch whose
\* remote call threw has decision BORDERLINE, confidence 50 and reason
\* "API error", and every paper of another batch has the decision its own
\* batch's call returned for it.
C5_ApiErrorDefaults ==
    (bx.kind = "screening" /\ bx.pc = "done") =>
        /\ \A n \in bx.threw : \A j \in DOMAIN bx.items[n] :
              LET r == papers[bx.items[n][j]]
              IN  /\ r.screening_pass1 = "BORDERLINE"
                  /\ r.screening_pass1_confidence = 50
                  /\ r.screening_pass1_reason = "API error"
        /\ \A n \in DOMAIN bx.items \ bx.threw : \A j \in DOMAIN bx.items[n] :
              LET i == bx.items[n][j]
                  own == {x \in DOMAIN bx.out[n] : bx.out[n][x].id = i}
                  lst == CHOOSE x \in own : \A y \in own : y <= x
              IN  own # {} =>
                    papers[i].screening_pass1 = NormDecision(bx.out[n][lst].decision)

(***************************************************************************)
(* Claims over the search stage                                            *)
(***************************************************************************)
\* Positions of the documents gone through so far that carry the DOI d.
WithDoi(d) == {n \in DOMAIN srch.enc : NormDoi(srch.enc[n].doc.doi) = d}

\* Position n's DOI or title key is on a kept document at an earlier position.
SeenEarlier(n) ==
    \E m \in 1..(n - 1) :
        /\ srch.enc[m].kept
        /\ \/ /\ NormDoi(srch.enc[n].doc.doi) # <<>>
              /\ NormDoi(srch.enc[m].doc.doi) = NormDoi(srch.enc[n].doc.doi)
           \/ _title_key(srch.enc[m].doc.title) = _title_key(srch.enc[n].doc.title)

\* Stored rows that carry the DOI d.
StoredWithDoi(d) == {i \in DOMAIN papers : NormDoi(papers[i].doi) = d}

C12_AlwaysOneRound ==
    (/\ sb.pc = "returned" /\ sb.screenings = 0
     /\ get_papers_final(papers, "INCLUDED") # {})
    => sb.collects >= 1

\* C12 as the code has it: with max_snowball_rounds >= 1 a run entered with an
\* INCLUDED document performs at least one round; with max_snowball_rounds = 0
\* the loop has no iteration and no round is performed.
C12_OneRoundIfAllowed ==
    /\ (/\ sb.pc \in {"break", "returned", "raised"} /\ sb.max_rounds >= 1
        /\ sb.screenings = 0 /\ get_papers_final(papers, "INCLUDED") # {})
       => sb.collects >= 1
    /\ (sb.pc # "idle" /\ sb.max_rounds = 0) => (sb.rounds = 0 /\ sb.collects = 0)

\* C12 witness: a run that may run rounds was entered with an INCLUDED document
\* and has returned after collecting candidates once.
C12_Witness ==
    /\ sb.pc = "returned" /\ sb.max_rounds >= 1
    /\ sb.screenings = 0 /\ sb.collects = 1 /\ sb.rounds = 1
    /\ get_papers_final(papers, "INCLUDED") # {}

(***************************************************************************)
(* Claims over the stage machine                                           *)
(***************************************************************************)
\* Position of a value of pipeline_stage in the order of the stage machine;
\* the page's RUNNING_X value stands just before the stage its handler enters.
StageRank(s) ==
    CASE s = "IDLE" -> 0
      [] s = "RUNNING_QUERY" -> 1
      [] s = "QUERY_FORMULATION" -> 2
      [] s = "QUERY_APPROVAL" -> 3
      [] s = "RUNNING_SEARCH" -> 4
      [] s = "SEARCHING" -> 5
      [] s = "DEDUPLICATION" -> 6
      [] s = "RUNNING_SCREENING" -> 7
      [] s = "SCREENING_PASS_1" -> 8
      [] s = "HITL_REVIEW" -> 9
      [] s = "RUNNING_SNOWBALL" -> 10
      [] s = "SNOWBALLING" -> 11
      [] s = "RUNNING_QUALITY" -> 12
      [] s = "QUALITY_ASSESSMENT" -> 13
      [] s = "RUNNING_SYNTHESIS" -> 14
      [] s = "SYNTHESIS" -> 15
      [] s = "COMPLETE" -> 16

\* The stages a run_X operation enters when it starts.
OperationStages ==
    {"QUERY_FORMULATION", "SEARCHING", "SCREENING_PASS_1", "SNOWBALLING",
     "QUALITY_ASSESSMENT", "SYNTHESIS"}

\* An operation is in flight: a handler is inside run_X, or the snowball loop
\* has not returned.
InFlight == session.pc \in {"running", "returned"} \/ sb.pc \in {"loop", "break"}

\* C13 as stated: every change of the stage moves forward in the order IDLE,
\* QUERY_FORMULATION, ..., COMPLETE (a reset to IDLE starts a new run), and no
\* operation's stage is entered while an earlier operation is in flight.
C13_LinearOrder ==
    [][session'.pipeline_stage # session.pipeline_stage =>
          /\ \/ StageRank(session'.pipeline_stage) >= StageRank(session.pipeline_stage)
             \/ session'.pipeline_stage = "IDLE"
          /\ session'.pipeline_stage \in OperationStages => ~InFlight]_vars

\* C13 as the code has it: the stage moves forward in that order, except that
\* regenerating the queries or launching again, with the page at rest, goes
\* back to query formulation;
\* no operation's stage is entered while an earlier operation is in flight;
\* and the store is written only inside an operation or by the HITL page.
C13_StageOrder ==
    [][/\ session'.pipeline_stage # session.pipeline_stage =>
             /\ \/ StageRank(session'.pipeline_stage) >= StageRank(session.pipeline_stage)
                \/ session'.pipeline_stage = "RUNNING_QUERY" /\ ~InFlight
             /\ session'.pipeline_stage \in OperationStages => ~InFlight
       /\ papers' # papers =>
             \/ session.pc = "running"
             \/ session.pipeline_stage = "HITL_REVIEW" /\ session.pc = "page"]_vars

\* C13 witness: a run whose queries were regenerated once has gone through
\* search, screening, human review, snowballing and quality to COMPLETE.
C13_Witness ==
    /\ session.pipeline_stage = "COMPLETE"
    /\ Cardinality({n \in DOMAIN events : events[n].stage = "QUERY_FORMULATION"}) = 2
    /\ \E n \in DOMAIN events : events[n].stage = "SNOWBALLING"
    /\ \E i \in DOMAIN papers : papers[i].human_decision # NULL

\* C14: whenever the session's stage is one of the states of the stage
\* machine other than the initial IDLE, the last "Entering stage" event of the
\* log names that stage.
C14_TransitionLogged ==
    (session.pipeline_stage \in {STAGES[n] : n \in 2..Len(STAGES)}) =>
        LET entering == {n \in DOMAIN events : events[n].message = "Entering stage"}
        IN  /\ entering # {}
            /\ \A n \in entering :
                  (\A m \in entering : m <= n) => events[n].stage = session.pipeline_stage

\* The borderline count of the store: decision BORDERLINE, no human override.
BorderlineCount == count_papers(papers).borderline

\* C15 as stated: when the screening handler has just picked the next stage,
\* that stage is HITL_REVIEW if and only if human review is enabled and the
\* store holds a document with decision BORDERLINE and no human override.
C15_HitlIffStoredBorderline ==
    (last.op = "screen" /\ ~last.raised /\ session.pc = "page"
       /\ session.pipeline_stage \in {"HITL_REVIEW", "RUNNING_SNOWBALL", "RUNNING_QUALITY"})
    => (session.pipeline_stage = "HITL_REVIEW"
          <=> (session.hitl_enabled /\ BorderlineCount > 0))

(***************************************************************************)
(* Claims over re-invoked screening and the write loop                     *)
(***************************************************************************)
\* C16 (as stated): a run of run_screening_pass1 leaves the decision, reason,
\* confidence and final status of every document that already had a decision
\* unchanged.
C16_RerunKeepsDecided ==
    [][last'.op = "screen" =>
          \A i \in DOMAIN papers :
              papers[i].screening_pass1 # NULL =>
                  /\ papers'[i].screening_pass1 = papers[i].screening_pass1
                  /\ papers'[i].screening_pass1_reason = papers[i].screening_pass1_reason
                  /\ papers'[i].screening_pass1_confidence = papers[i].screening_pass1_confidence
                  /\ papers'[i].final_status = papers[i].final_status]_vars

\* The ids the run submitted to the remote service.
SubmittedIds == UNION {{bx.items[n][j] : j \in DOMAIN bx.items[n]} : n \in DOMAIN bx.items}

\* C17 (as stated): a decision whose id was not submitted, whether the id is
\* absent from the store or is a stored document outside the submitted
\* batches, changes no stored document and is not counted in the counts the
\* run returns.
C17_UnsubmittedIgnored ==
    (bx.kind = "screening" /\ bx.pc = "done") =>
        /\ \A i \in DOMAIN papers \ SubmittedIds : papers[i] = CommitStore[i]
        /\ \A x \in DOMAIN bx.writes : bx.writes[x] \in SubmittedIds
        /\ bx.counts.include + bx.counts.exclude + bx.counts.borderline
              = Cardinality({x \in DOMAIN bx.all_results :
                                bx.all_results[x].id \in SubmittedIds})

C19_DecisionValueSet ==
    /\ \A i \in DOMAIN papers :
          papers[i].screening_pass1 \in {NULL, "INCLUDE", "EXCLUDE", "BORDERLINE"}
    /\ (bx.kind = "screening" /\ bx.pc \in {"pool", "done"} /\ bx.k >= 1) =>
          LET d == bx.all_results[bx.k]
          IN  d.id \in DOMAIN papers =>
                papers[d.id].screening_pass1 =
                    CASE d.decision \in {"INCLUDE", "EXCLUDE", "BORDERLINE"} -> d.decision
                      [] d.decision = "exclude" -> "EXCLUDE"
                      [] OTHER -> "BORDERLINE"

\* A completed write loop whose last entry carried an unknown or a missing
\* label for a stored document.
C19_Witness ==
    /\ bx.kind = "screening" /\ bx.pc = "done" /\ bx.k = MaxResp
    /\ bx.all_results[bx.k].decision \in {"MAYBE", NoLabel}
    /\ bx.all_results[bx.k].id \in DOMAIN papers
    /\ papers[bx.all_results[bx.k].id].screening_pass1 = "BORDERLINE"
    /\ \E x \in DOMAIN bx.all_results :
          /\ bx.all_results[x].decision = "exclude"
          /\ bx.all_results[x].id \in DOMAIN papers

\* C20: every document whose decision is EXCLUDE has final_status EXCLUDED,
\* after every screening run and in every other state of the store.
C20_ExcludeIsExcluded ==
    \A i \in DOMAIN papers :
        papers[i].screening_pass1 = "EXCLUDE" => papers[i].final_status = "EXCLUDED"

\* A completed screening run after which one document is EXCLUDE with final
\* status EXCLUDED and another document is INCLUDED.
C20_Witness ==
    /\ last.op = "screen" /\ ~last.raised
    /\ \E i \in DOMAIN papers :
          /\ papers[i].screening_pass1 = "EXCLUDE"
          /\ papers[i].final_status = "EXCLUDED"
    /\ \E i \in DOMAIN papers : papers[i].final_status = "INCLUDED"

(***************************************************************************)
(* Claims over finalization, human review and quality assessment           *)
(***************************************************************************)
\* C21: when run_screening_pass1 has returned, whichever stage the page goes
\* to next (HITL_REVIEW with BORDERLINE documents pending included), no
\* document has decision INCLUDE and no final status: finalize_included set
\* INCLUDED on every INCLUDE document that had no final status.
C21_FinalizedOnReturn ==
    (/\ last.op = "screen" /\ ~last.raised /\ session.pc = "page"
     /\ session.pipeline_stage \in {"HITL_REVIEW", "RUNNING_SNOWBALL", "RUNNING_QUALITY"})
    => \A i \in DOMAIN papers :
          papers[i].screening_pass1 = "INCLUDE" => papers[i].final_status # NULL

\* Human review is enabled, the page waits in HITL_REVIEW with a BORDERLINE
\* document pending, and the INCLUDE document of the same run is INCLUDED.
C21_Witness ==
    /\ last.op = "screen" /\ ~last.raised /\ session.pc = "page"
    /\ session.hitl_enabled /\ session.pipeline_stage = "HITL_REVIEW"
    /\ \E i \in DOMAIN papers :
          /\ papers[i].screening_pass1 = "BORDERLINE"
          /\ papers[i].human_decision = NULL /\ papers[i].final_status = NULL
    /\ \E i \in DOMAIN papers :
          /\ papers[i].screening_pass1 = "INCLUDE"
          /\ papers[i].final_status = "INCLUDED"

\* C22: a resume_after_hitl step takes every BORDERLINE document with human
\* override INCLUDE to decision INCLUDE and final status INCLUDED, every
\* BORDERLINE document with human override EXCLUDE to final status EXCLUDED,
\* and leaves the decision and the final status of every BORDERLINE document
\* without a human override as they were.
C22_ResumeAppliesOverrides ==
    [][last'.op = "resume" =>
          \A i \in DOMAIN papers :
              papers[i].screening_pass1 = "BORDERLINE" =>
                  /\ papers[i].human_decision = "INCLUDE" =>
                        /\ papers'[i].screening_pass1 = "INCLUDE"
                        /\ papers'[i].final_status = "INCLUDED"
                  /\ papers[i].human_decision = "EXCLUDE" =>
                        /\ papers'[i].screening_pass1 = "BORDERLINE"
                        /\ papers'[i].final_status = "EXCLUDED"
                  /\ papers[i].human_decision = NULL =>
                        /\ papers'[i].screening_pass1 = "BORDERLINE"
                        /\ papers'[i].final_status = papers[i].final_status]_vars

\* After a resume: one document the human included, now INCLUDE and INCLUDED,
\* and one BORDERLINE document the human excluded, now EXCLUDED.
C22_Witness ==
    /\ last.op = "resume"
    /\ \E i \in DOMAIN papers :
          /\ papers[i].human_decision = "INCLUDE"
          /\ papers[i].screening_pass1 = "INCLUDE"
          /\ papers[i].final_status = "INCLUDED"
    /\ \E i \in DOMAIN papers :
          /\ papers[i].human_decision = "EXCLUDE"
          /\ papers[i].screening_pass1 = "BORDERLINE"
          /\ papers[i].final_status = "EXCLUDED"

\* C23: a run of the quality stage leaves the quality score, notes and flag of
\* every document that already had a score, and every field of every document
\* whose final status is not INCLUDED, unchanged.
C23_QualityFrame ==
    [][last'.op = "quality" =>
          \A i \in DOMAIN papers :
              /\ papers[i].quality_score # NoScore =>
                    /\ papers'[i].quality_score = papers[i].quality_score
                    /\ papers'[i].quality_notes = papers[i].quality_notes
                    /\ papers'[i].quality_flag = papers[i].quality_flag
              /\ papers[i].final_status # "INCLUDED" => papers'[i] = papers[i]]_vars

\* After a quality run: a document scored by the run, a document that keeps
\* the score of an earlier run, and a document that is not included.
C23_Witness ==
    /\ last.op = "quality"
    /\ \E i \in DOMAIN papers :
          papers[i].quality_score = 80 /\ papers[i].quality_notes = "ok"
    /\ \E i \in DOMAIN papers :
          /\ papers[i].quality_score = 70 /\ papers[i].quality_notes = "earlier"
          /\ papers[i].quality_flag = "low_citations"
    /\ \E i \in DOMAIN papers :
          papers[i].final_status = "EXCLUDED" /\ papers[i].quality_score = NoScore

\* C24 (as stated): every quality score in the store is a number within 0 to
\* 100, whatever the remote quality call returned.
C24_ScoreWithinBounds ==
    \A i \in DOMAIN papers :
        papers[i].quality_score # NoScore =>
            (0 <= papers[i].quality_score /\ papers[i].quality_score <= 100)

\* C25 (as stated): with no document ingested, screening is a fatal
\* precondition failure and the pipeline stage does not advance past
\* screening.
C25_EmptyStoreHaltsAtScreening ==
    DOMAIN papers = {} =>
        StageRank(session.pipeline_stage) <= StageRank("SCREENING_PASS_1")

(***************************************************************************)
(* Claims over failures in the search stage and the title key              *)
(***************************************************************************)
\* C26: when SearchAgent.run has returned, every query of both lists was
\* attempted whatever the number of failed queries, every document a
\* successful query's deduplication kept is stored, and the returned total is
\* the number of stored documents.
C26_QueryFailureTolerated ==
    srch.pc = "done" =>
        /\ srch.i = Len(SsQueries) + 1
        /\ srch.failed <= Len(OaQueries) + Len(SsQueries)
        /\ \A n \in DOMAIN srch.enc :
              srch.enc[n].kept => srch.enc[n].doc.id \in DOMAIN papers
        /\ srch.total_inserted = Cardinality(DOMAIN papers)

\* The run returned after the OpenAlex query failed, and the documents of the
\* Semantic Scholar query are stored.
C26_Witness ==
    /\ srch.pc = "done" /\ srch.failed = 1
    /\ srch.enc # <<>>
    /\ srch.total_inserted >= 1
    /\ DOMAIN papers # {}

\* C27 (as stated): whichever remote call of the synthesis stage fails, run
\* does not raise and a synthesis result is stored when it is through.
C27_SynthesisNeverRaises ==
    /\ syn.pc # "raised"
    /\ (syn.pc = "returned" /\ last.op = "synthesis"
        /\ get_papers_final(papers, "INCLUDED") # {}) => syn.result # NULL

\* C29: every relevance score in the store is within 0 to 100 (0 to 1000
\* tenths), by similarity and by keywords alike, and after a keyword scoring
\* every document whose text shares no token with the research question has
\* score 0.
C29_RelevanceBounds ==
    /\ \A i \in DOMAIN papers :
          papers[i].relevance_score # NoScore =>
              (0 <= papers[i].relevance_score /\ papers[i].relevance_score <= 1000)
    /\ (syn.method = "keyword" /\ last.op = "relevance") =>
          \A i \in DOMAIN syn.words :
              syn.rq_words \cap syn.words[i] = {} => papers[i].relevance_score = 0

\* After a keyword scoring: one document shares every token of the question
\* and is capped at 100, another shares none and has 0.
C29_Witness ==
    /\ syn.method = "keyword" /\ last.op = "relevance" /\ syn.rq_words # {}
    /\ \E i \in DOMAIN syn.words :
          /\ syn.rq_words \subseteq syn.words[i]
          /\ papers[i].relevance_score = 1000
    /\ \E i \in DOMAIN syn.words :
          /\ syn.rq_words \cap syn.words[i] = {}
          /\ papers[i].relevance_score = 0

\* C28: the event log is append-only with increasing ids: every step leaves
\* the events written so far in place and unchanged, and the id of every event
\* it adds is strictly greater than the id of every earlier event (so ids are
\* unique).
C28_EventsAppendOnly ==
    [][/\ Len(events') >= Len(events)
       /\ SubSeq(events', 1, Len(events)) = events
       /\ \A n \in (Len(events) + 1)..Len(events') :
             \A m \in 1..(n - 1) : events'[m].id < events'[n].id]_vars

\* A completed pipeline whose log holds the events of every stage, a step
\* that wrote two events included.
C28_Witness ==
    /\ session.pipeline_stage = "COMPLETE"
    /\ Len(events) >= 8
    /\ events[Len(events)].id = Len(events)
    /\ \E n \in DOMAIN events : events[n].message # "Entering stage"

\* Documents gone through at positions m < n whose titles have one title key.
SameKeyPair(m, n) ==
    /\ m < n
    /\ _title_key(srch.enc[m].doc.title) = _title_key(srch.enc[n].doc.title)

\* C30 (as stated): of two documents whose titles produce the same dedup key
\* the second is dropped by the search deduplication.
C30_SecondOfPairDropped ==
    \A n \in DOMAIN srch.enc : \A m \in DOMAIN srch.enc :
        SameKeyPair(m, n) => ~srch.enc[n].kept

\* C30 as the code has it: titles that differ only in punctuation, whitespace
\* or letter case have one key, and the second of two documents with one key
\* is dropped whenever the first was kept; it is kept only if every earlier
\* document with that key was itself dropped for its DOI.
C30_SameKeyDroppedAfterKept ==
    /\ _title_key(<<"A", " ", "b", "!">>) = _title_key(<<"a", "-", "B">>)
    /\ _title_key(<<"A", "b">>) = <<"a", "b">>
    /\ \A n \in DOMAIN srch.enc : \A m \in DOMAIN srch.enc :
          SameKeyPair(m, n) =>
              /\ srch.enc[m].kept => ~srch.enc[n].kept
              /\ srch.enc[n].kept =>
                    \E x \in 1..(m - 1) :
                        /\ srch.enc[x].kept
                        /\ NormDoi(srch.enc[m].doc.doi) # <<>>
                        /\ NormDoi(srch.enc[x].doc.doi) = NormDoi(srch.enc[m].doc.doi)

\* Two documents of different DOIs whose titles differ in case and
\* punctuation only: the first was kept and stored, the second was dropped.
C30_Witness ==
    \E n \in DOMAIN srch.enc : \E m \in DOMAIN srch.enc :
        /\ SameKeyPair(m, n)
        /\ srch.enc[m].doc.title # srch.enc[n].doc.title
        /\ NormDoi(srch.enc[m].doc.doi) # NormDoi(srch.enc[n].doc.doi)
        /\ srch.enc[m].kept /\ ~srch.enc[n].kept
        /\ srch.enc[m].doc.id \in DOMAIN papers
        /\ srch.enc[n].doc.id \notin DOMAIN papers
        /\ srch.pc = "done"

(***************************************************************************)
(* A snowball round on a store of three documents                          *)
(* (agents/snowballing_agent.py, lines 35-122)                             *)
(***************************************************************************)
\* The row of a document a screening run decided.
RoundRow(i, dec, status) ==
    [NewRow(MkDoc(i, NULL, i, "W", NULL)) EXCEPT
        !.screening_pass1 = dec,
        !.screening_pass1_reason = IF dec = NULL THEN NULL ELSE "llm",
        !.screening_pass1_confidence = IF dec = NULL THEN 0 ELSE 90,
        !.final_status = status]

\* The stores a run of the snowballing stage starts from: p1 is included, p2
\* is absent, stored without a decision (a screening run did not cover it, or
\* it was ingested after the screening run), excluded or borderline.
RoundStores ==
    {[i \in {"p1"} |-> RoundRow("p1", "INCLUDE", "INCLUDED")]}
    \cup {[i \in {"p1", "p2"} |->
             IF i = "p1" THEN RoundRow("p1", "INCLUDE", "INCLUDED")
             ELSE RoundRow("p2", r[1], r[2])] :
          r \in {<<NULL, NULL>>, <<"EXCLUDE", "EXCLUDED">>, <<"BORDERLINE", NULL>>}}

\* The works the citation lookups return for a store: known ids are dropped
\* (lines 60, 69, 77).
RoundCandidates(store) ==
    IF \E i \in get_papers_final(store, "INCLUDED") : store[i].openalex_id # NULL
    THEN SUBSET (Ids \ DOMAIN store)
    ELSE {{}}

RoundResponses ==
    SeqsUpTo(RemoteEntries(Ids, PipeLabels) \cup {BadEntry}, MaxResp)

InitRound ==
    /\ session = SessionIdle
    /\ events = <<>>
    /\ syn = SynIdle
    /\ papers \in RoundStores
    /\ \E cfg \in Configs :
         /\ cfg.max_snowball_rounds > 0
         /\ sb = [SbIdle EXCEPT !.pc = "loop", !.round_num = 1,
                                !.max_rounds = cfg.max_snowball_rounds,
                                !.target_size = cfg.target_corpus_size]
    /\ last = Last("snowball", 0, FALSE)
    /\ bx = BxIdle
    /\ srch = SrchIdle

RoundOfThree == Round(RoundCandidates(papers), RoundResponses)

NextRound == RoundOfThree \/ SnowballReturn

SpecRound == InitRound /\ [][NextRound]_vars

\* The documents a snowball round inserted: their provenance tag is the
\* round's.
SnowballTagged(store) ==
    {i \in DOMAIN store :
        store[i].found_via \in {RoundTag(n) : n \in 1..DEFAULT_MAX_SNOWBALL_ROUNDS}}

\* C31: the number run_snowballing returns is the number of candidates of its
\* rounds that the rounds' screening decided INCLUDE (with a single round:
\* new_included is the number of that round's candidates decided INCLUDE).
\* Stated for the runs that left the documents they started from included.
C31_ReturnsNewlyIncluded ==
    (/\ sb.pc = "returned" /\ sb.screenings = 1 /\ last.op = "snowball"
     /\ \A i \in DOMAIN papers \ SnowballTagged(papers) :
           papers[i].final_status = "INCLUDED")
        => sb.total_new_included =
             Cardinality({i \in SnowballTagged(papers) :
                            papers[i].screening_pass1 = "INCLUDE"})

\* C32: a snowball round screens the candidates it inserted and nothing else:
\* a document that was in the store before the round without a decision has
\* no decision after the round either.
C32_RoundScreensOnlyItsCandidates ==
    [][sb'.screenings = sb.screenings + 1
         => \A i \in DOMAIN papers :
              papers[i].screening_pass1 = NULL => papers'[i] = papers[i]]_vars

\* C33: a malformed entry of a remote screening response (an entry that is
\* not an object, or whose decision is null) never makes a screening run
\* raise.
C33_MalformedEntryTolerated ==
    last.op = "screen" => ~last.raised

\* C34: when the synthesis stage has run to its end over a non-empty included
\* set and no embedding exists (the embedding call failed, none is stored),
\* every included document has a relevance score, from the keyword fallback.
C34_KeywordFallbackInSynthesis ==
    (syn.pc = "returned" /\ ~syn.vectors /\ syn.embeddings = {})
        => \A i \in get_papers_final(papers, "INCLUDED") :
              papers[i].relevance_score # NoScore

(***************************************************************************)
(* Screening and quality on one store (agents/orchestrator.py)             *)
(***************************************************************************)
\* The quality stage, started when no other stage is running; a remote reply
\* or the except branch's result for each paper.
QualityStage == Quiescent /\ QualityRun({<<80, "ok", "none">>, AssessmentFailed})

\* The search stage's insertions, the screening stage with its human review,
\* and the quality stage.
NextFields ==
    \/ Ingest
    \/ run_screening_pass1
    \/ RecordHuman
    \/ resume_after_hitl
    \/ QualityStage

SpecFields == InitPipe /\ [][NextFields]_vars

\* C35: screening and quality write disjoint fields. A screening run, a
\* recorded human decision and a resume leave
\* quality score, notes and flag of every document unchanged; a quality run
\* leaves decision, reason, confidence, human override and final status
\* unchanged; no operation removes a document or changes its bibliographic
\* attributes or its provenance tag.
C35_DisjointFields ==
    [][\A i \in DOMAIN papers :
          /\ i \in DOMAIN papers'
          /\ papers'[i].doi = papers[i].doi
          /\ papers'[i].title = papers[i].title
          /\ papers'[i].openalex_id = papers[i].openalex_id
          /\ papers'[i].found_via = papers[i].found_via
          /\ last'.op \in {"screen", "resume", "human", "upsert"} =>
                /\ papers'[i].quality_score = papers[i].quality_score
                /\ papers'[i].quality_notes = papers[i].quality_notes
                /\ papers'[i].quality_flag = papers[i].quality_flag
          /\ last'.op = "quality" =>
                /\ papers'[i].screening_pass1 = papers[i].screening_pass1
                /\ papers'[i].screening_pass1_reason = papers[i].screening_pass1_reason
                /\ papers'[i].screening_pass1_confidence
                      = papers[i].screening_pass1_confidence
                /\ papers'[i].human_decision = papers[i].human_decision
                /\ papers'[i].final_status = papers[i].final_status]_vars

\* A document that a quality run scored has then been excluded by a
\* screening run, and keeps its score.
C35_Witness ==
    /\ last.op = "screen"
    /\ \E i \in DOMAIN papers :
          /\ papers[i].quality_score # NoScore
          /\ papers[i].screening_pass1 = "EXCLUDE"
          /\ papers[i].final_status = "EXCLUDED"

(***************************************************************************)
(* The progress sink during a batch (agents/screening_agent.py, lines      *)
(* 49-99; agents/quality_agent.py, lines 42-83)                            *)
(***************************************************************************)
\* The pool of run_pass1 and of QualityAgent.run with every call of self.log
\* as a step of its own: w[n] = "logging" while worker n is inside the call
\* of its except branch, w[n] = "collecting" while the main thread, holding
\* the lock, is inside the call that reports future n.

\* The remote call of a running worker returns.
WorkerReplies ==
    /\ UNCHANGED <<session, events, syn>>
    /\ bx.pc = "pool"
    /\ \E n \in DOMAIN bx.w :
          /\ bx.w[n] = "running"
          /\ \/ /\ bx.kind = "screening"
                /\ \E ds \in BatchResponses :
                      bx' = [bx EXCEPT !.w[n] = "returned", !.out[n] = ds]
             \/ /\ bx.kind = "quality"
                /\ \E r \in QualityReplies :
                      bx' = [bx EXCEPT
                               !.w[n] = "returned",
                               !.out[n] = <<QualityResult(bx.items[n][1], r[1], r[2], r[3])>>]
    /\ UNCHANGED <<papers, sb, last, srch>>

\* The remote call of a running worker throws: the except branch calls
\* self.log on the worker's thread.
WorkerThrows ==
    /\ UNCHANGED <<session, events, syn>>
    /\ bx.pc = "pool"
    /\ \E n \in DOMAIN bx.w :
          /\ bx.w[n] = "running"
          /\ bx' = [bx EXCEPT !.w[n] = "logging", !.threw = @ \cup {n}]
    /\ UNCHANGED <<papers, sb, last, srch>>

\* self.log returns to the except branch, which returns the safe default.
WorkerLogged ==
    /\ UNCHANGED <<session, events, syn>>
    /\ bx.pc = "pool"
    /\ \E n \in DOMAIN bx.w :
          /\ bx.w[n] = "logging"
          /\ bx' = [bx EXCEPT
                      !.w[n] = "returned",
                      !.out[n] = IF bx.kind = "screening"
                                 THEN ApiErrorDecisions(bx.items[n])
                                 ELSE <<QualityResult(bx.items[n][1], 50,
                                                      "Assessment failed.", "none")>>]
    /\ UNCHANGED <<papers, sb, last, srch>>

\* The main thread takes a finished future, takes the lock, counts it and
\* calls self.log.
CollectLog ==
    /\ UNCHANGED <<session, events, syn>>
    /\ bx.pc = "pool"
    /\ \A m \in DOMAIN bx.w : bx.w[m] # "collecting"
    /\ \E n \in DOMAIN bx.w :
          /\ bx.w[n] = "returned"
          /\ bx' = [bx EXCEPT !.w[n] = "collecting",
                              !.completed_count = @ + 1,
                              !.all_results = @ \o bx.out[n]]
    /\ UNCHANGED <<papers, sb, last, srch>>

\* self.log returns to the main thread, which releases the lock.
CollectLogged ==
    /\ UNCHANGED <<session, events, syn>>
    /\ bx.pc = "pool"
    /\ \E n \in DOMAIN bx.w :
          /\ bx.w[n] = "collecting"
          /\ bx' = [bx EXCEPT !.w[n] = "collected"]
    /\ UNCHANGED <<papers, sb, last, srch>>

NextSink ==
    \/ StartScreening
    \/ StartQuality
    \/ WorkerStart
    \/ WorkerReplies
    \/ WorkerThrows
    \/ WorkerLogged
    \/ CollectLog
    \/ CollectLogged
    \/ CommitStep
    \/ BatchFinish

SpecSink == InitBatch /\ [][NextSink]_vars

\* C36: the progress sink is never run by two threads at the same time
\* during a screening or quality batch.
C36_SinkNotConcurrent ==
    Cardinality({n \in DOMAIN bx.w : bx.w[n] \in {"logging", "collecting"}}) <= 1

\* C37: whenever the page is at rest (no handler is running), a failed
\* operation included, the stored stage is one the page's script has a
\* branch for.
C37_StageHasHandler ==
    AtRest(session) => session.pipeline_stage \in HandledStages

\* C38: the counts of count_papers partition the store: none is negative, no
\* document is counted as two of included, excluded and borderline, and
\* unscreened is the number of documents without a screening decision.
\* Stated for the store as the review page leaves it when it has recorded a
\* human decision.
C38_CountsPartition ==
    last.op = "human" =>
    LET c == count_papers(papers)
        inc == get_papers_final(papers, "INCLUDED")
        exc == get_papers_final(papers, "EXCLUDED")
        bor == {i \in DOMAIN papers : /\ papers[i].screening_pass1 = "BORDERLINE"
                                      /\ papers[i].human_decision = NULL}
    IN  /\ c.included >= 0 /\ c.excluded >= 0 /\ c.borderline >= 0 /\ c.unscreened >= 0
        /\ inc \cap bor = {} /\ exc \cap bor = {} /\ inc \cap exc = {}
        /\ c.unscreened = Cardinality(Unscreened(papers))

\* C39: with human review enabled, the page does not go on from snowballing
\* to the quality stage while a document a snowball round inserted is
\* BORDERLINE without a human decision: such a document is first offered for
\* review.
C39_SnowballBorderlineOffered ==
    [][(/\ session.hitl_enabled
        /\ session.pipeline_stage = "SNOWBALLING"
        /\ session'.pipeline_stage = "RUNNING_QUALITY")
          => \A i \in SnowballTagged(papers') :
                ~(/\ papers'[i].screening_pass1 = "BORDERLINE"
                  /\ papers'[i].human_decision = NULL)]_vars

(***************************************************************************)
(* The catalog clients' request loops (data/openalex_client.py,            *)
(* data/semantic_scholar.py) under SearchAgent.run                         *)
(***************************************************************************)
\* The largest number of queries of one catalog in a run.
MaxQueries == 2

\* Documents per page, and the offset step of the Semantic Scholar client
\* (per-page 50, limit 100), in the unit MaxHits counts results in.
PerPage == 1

\* srch in the request loops: n_oa and n_ss are the lengths of the two query
\* lists, pc the loop of SearchAgent.run, i the index of its query, call
\* where the client is ("loop": at its while test, "await": a request is in
\* flight), got is len(papers), offset is params["offset"], and results
\* lists, per query gone through, whether the call returned and how many
\* documents it returned.
CatalogIdle ==
    [pc |-> "idle", n_oa |-> 0, n_ss |-> 0, i |-> 0, call |-> "none",
     got |-> 0, offset |-> 0, results |-> <<>>]

\* max_results of a call: max_per_query, and max_per_query // 2 for
\* Semantic Scholar (search_agent.py, lines 45 and 70).
MaxResults(pc) == IF pc = "ss" THEN MaxHits \div 2 ELSE MaxHits

QueriesOf(s) == IF s.pc = "ss" THEN s.n_ss ELSE s.n_oa

\* The call of query i ends, returning n documents (ok) or raising: the
\* except branch logs the failure; the loop goes on to the next query.
QueryEnds(s, ok, n) ==
    [s EXCEPT !.i = @ + 1, !.call = "loop", !.got = 0, !.offset = 0,
              !.results = Append(@, [ok |-> ok, n |-> n])]

Least(a, b) == IF a < b THEN a ELSE b

InitCatalog ==
    /\ session = SessionIdle
    /\ events = <<>>
    /\ syn = SynIdle
    /\ papers = EmptyStore
    /\ sb = SbIdle
    /\ last = Last("init", 0, FALSE)
    /\ bx = BxIdle
    /\ \E a, b \in 0..MaxQueries : srch = [CatalogIdle EXCEPT !.n_oa = a, !.n_ss = b]

\* SearchAgent.run up to the first OpenAlex query.
RunSearch ==
    /\ srch.pc = "idle"
    /\ srch' = [srch EXCEPT !.pc = "openalex", !.i = 1, !.call = "loop"]
    /\ UNCHANGED <<papers, sb, last, bx, session, events, syn>>

\* The OpenAlex loop is through; the Semantic Scholar loop begins.
SemanticScholarLoop ==
    /\ srch.pc = "openalex" /\ srch.i > srch.n_oa
    /\ srch' = [srch EXCEPT !.pc = "ss", !.i = 1]
    /\ UNCHANGED <<papers, sb, last, bx, session, events, syn>>

\* Both loops are through: run returns.
SearchReturns ==
    /\ srch.pc = "ss" /\ srch.i > srch.n_ss
    /\ srch' = [srch EXCEPT !.pc = "returned", !.call = "none"]
    /\ UNCHANGED <<papers, sb, last, bx, session, events, syn>>

\* The client's while test: a request is sent while len(papers) < max_results,
\* otherwise the call returns what it has.
ClientRequest ==
    /\ srch.pc \in {"openalex", "ss"} /\ srch.i <= QueriesOf(srch)
    /\ srch.call = "loop"
    /\ srch' = IF srch.got < MaxResults(srch.pc)
               THEN [srch EXCEPT !.call = "await"]
               ELSE QueryEnds(srch, TRUE, srch.got)
    /\ UNCHANGED <<papers, sb, last, bx, session, events, syn>>

\* OpenAlex answers (search_works, lines 167-190): an error status or a
\* transport error raises; an empty page ends the call; otherwise the page's
\* parsed works are appended up to max_results, and the call ends unless the
\* answer carries a next cursor.
OpenAlexResponse ==
    /\ srch.pc = "openalex" /\ srch.call = "await"
    /\ \/ srch' = QueryEnds(srch, FALSE, 0)
       \/ \E raw \in 0..PerPage : \E k \in 0..raw : \E cursor \in BOOLEAN :
             LET got == Least(srch.got + k, MaxResults("openalex"))
             IN  srch' = IF raw = 0 \/ ~cursor
                         THEN QueryEnds(srch, TRUE, IF raw = 0 THEN srch.got ELSE got)
                         ELSE [srch EXCEPT !.call = "loop", !.got = got]
    /\ UNCHANGED <<papers, sb, last, bx, session, events, syn>>

\* Semantic Scholar answers (search_papers, lines 104-130): on status 429 the
\* client sleeps and sends the request again; another error raises; otherwise
\* the parsed papers are appended, the offset advances by the limit and the
\* call ends when the offset has reached min(total, max_results).
SemanticScholarResponse ==
    /\ srch.pc = "ss" /\ srch.call = "await"
    /\ \/ srch' = [srch EXCEPT !.call = "loop"]
       \/ srch' = QueryEnds(srch, FALSE, 0)
       \/ \E raw \in 0..PerPage : \E k \in 0..raw : \E total \in 0..MaxHits :
             LET got == Least(srch.got + k, MaxResults("ss"))
                 offset == srch.offset + PerPage
             IN  srch' = IF offset >= Least(total, MaxResults("ss"))
                         THEN QueryEnds(srch, TRUE, got)
                         ELSE [srch EXCEPT !.call = "loop", !.got = got,
                                           !.offset = offset]
    /\ UNCHANGED <<papers, sb, last, bx, session, events, syn>>

NextCatalog ==
    \/ RunSearch
    \/ SemanticScholarLoop
    \/ SearchReturns
    \/ ClientRequest
    \/ OpenAlexResponse
    \/ SemanticScholarResponse

\* The thread of run_search keeps running, and every request is answered (or
\* times out, which raises): some step is taken as long as one is possible.
\* What the catalogs answer is not constrained.
SpecCatalog == InitCatalog /\ [][NextCatalog]_vars /\ WF_vars(NextCatalog)

\* C40: the search stage terminates whatever the catalogs answer; stated for
\* its second loop: once the Semantic Scholar queries have begun, run_search
\* eventually returns.
C40_SearchTerminates ==
    (srch.pc = "ss") ~> (srch.pc = "returned")

====
